---- MODULE Spec2Model ----
(***************************************************************************)
(* ResTracker: the offline-first synchronisation of the ResolutionTracker  *)
(* component (src/src/ResolutionTracker.jsx) against the Notion gateway    *)
(* (api/notion/resolutions.js).                                            *)
(*                                                                         *)
(* The component is a React function component.  Its state lives in        *)
(* useState cells; every event handler and every continuation of an async  *)
(* function runs to completion, so each is one action.  A function value   *)
(* created by a render closes over that render's state; the model passes   *)
(* those captured values to the operators as parameters (cOnline,          *)
(* cPending), and the handlers registered by the one-time effect of lines  *)
(* 108-125 receive the values of the first render (mountOnline,            *)
(* mountPending).  A remote call in flight is an entry of tasks; its       *)
(* completion is an action that chooses the outcome of the call.           *)
(*                                                                         *)
(* The detail modal (selectedResolution), the tabs and the add-goal form   *)
(* are rendering state and are not modelled.                               *)
(*                                                                         *)
(* The background replay of the service worker (public/service-worker.js,  *)
(* lines 155-185) drains an IndexedDB store of its own; it is the second   *)
(* specification, SyncSpec.                                                *)
(***************************************************************************)
EXTENDS Integers, Sequences, FiniteSets, Bags, TLC

VARIABLES
    resolutions,        \* useState, line 75: the in-memory goal list
    isLoading,          \* useState, line 79
    isSyncing,          \* useState, line 80
    syncStatus,         \* useState, line 81
    isOnline,           \* useState, line 92: the connectivity flag
    pendingUpdates,     \* useState, line 93: the pending-update queue
    storedResolutions,  \* localStorage 'resolutions'
    storedPending,      \* localStorage 'pendingUpdates'
    mountOnline,        \* isOnline as captured by the first render
    mountPending,       \* pendingUpdates as captured by the first render
    remote,             \* the pages of the Notion database
    tasks,              \* bag of the remote calls in flight, with their continuations
    calls,              \* the PATCH calls the drains completed so far, in order
    hist,               \* history: which kinds of remote call have happened
    clock,              \* Date.now(): the events since the mount
    storageOk,          \* whether localStorage can be read and written in this session
    dbPendingUpdates,   \* service worker: the IndexedDB store 'pendingUpdates' (its keys)
    syncRuns,           \* service worker: bag of the syncResolutions calls in progress
    patched,            \* service worker: per update, the PATCH requests that got a response
    syncEvents,         \* service worker: the sync events dispatched so far
    caches,             \* service worker: the CacheStorage, its caches in creation order
    worker,             \* service worker: where the install and activate handlers are
    handlers,           \* service worker: bag of the fetch strategies in progress
    answered,           \* service worker: the last value a respondWith resolved to
    fetchEvents,        \* service worker: the fetch events dispatched so far
    env,                \* gateway: process.env, which credentials are configured
    req,                \* gateway: the request being handled
    notionCall,         \* gateway: the call to the Notion API in flight
    res,                \* gateway: the response sent
    serviceResult,      \* what the notionService function of the client returned
    progress            \* the percentages rendered for the fetched goals

\* The state of the component and of what it talks to.
appVars == <<resolutions, isLoading, isSyncing, syncStatus, isOnline, pendingUpdates,
             storedResolutions, storedPending, mountOnline, mountPending,
             remote, tasks, calls, hist, clock, storageOk>>

\* The state of the service worker.
swVars == <<dbPendingUpdates, syncRuns, patched, syncEvents>>

\* The caches of the service worker and its fetch strategies.
cacheVars == <<caches, worker, handlers, answered, fetchEvents>>

\* The state of one invocation of the gateway.
gwVars == <<env, req, notionCall, res, serviceResult, progress>>

vars == <<appVars, swVars, cacheVars, gwVars>>

(***************************************************************************)
(* Bounds of the model.                                                    *)
(***************************************************************************)
\* The largest progress value a goal is driven to.
MaxCurrent == 3
\* The number of user and browser events of a session.
MaxEvents == 3

(***************************************************************************)
(* Values.                                                                 *)
(***************************************************************************)
\* Record ids: a Notion page id, the id `local-<Date.now()>` of a goal created
\* locally, the id `demo-<n>` of a placeholder; Null is the null page id.
PageId(n) == <<"page", n>>
LocalId(ts) == <<"local", ts>>
DemoId(n) == <<"demo", n>>
Null == <<"null">>

\* lastCheckin is a calendar day: NoDay is '' (absent), Today is the day
\* new Date() yields, EarlierDay a day before it.
NoDay == 0
EarlierDay == 1
Today == 2

\* The outcome of a remote call: a 2xx response, a network error, a non-2xx
\* response.
Outcomes == {"ok", "neterr", "rejected"}

Max(a, b) == IF a >= b THEN a ELSE b

Resolution(id, cur, day, pid) ==
    [id |-> id, current |-> cur, lastCheckin |-> day, notionPageId |-> pid]

Page(id, cur, day) == [id |-> id, current |-> cur, lastCheckin |-> day]

PendingUpdate(pid, cur, day, ts) ==
    [pageId |-> pid, updates |-> [current |-> cur, lastCheckin |-> day], timestamp |-> ts]

getDemoData ==
    << Resolution(DemoId(1), 3, EarlierDay, Null),
       Resolution(DemoId(2), 3, EarlierDay, Null),
       Resolution(DemoId(3), 850, EarlierDay, Null),
       Resolution(DemoId(4), 7, EarlierDay, Null),
       Resolution(DemoId(5), 12, EarlierDay, Null) >>

(***************************************************************************)
(* The gateway and the remote store.                                       *)
(***************************************************************************)
\* GET: the reverse mapping of one page.
MapPage(p) ==
    [id |-> p.id, notionPageId |-> p.id,
     current |-> IF p.current # 0 THEN p.current ELSE 0,
     lastCheckin |-> IF p.lastCheckin # NoDay THEN p.lastCheckin ELSE NoDay]

ListResult == [k \in 1..Len(remote) |-> MapPage(remote[k])]

PageExists(pid) == \E k \in 1..Len(remote) : remote[k].id = pid

\* PATCH: the forward mapping writes the fields present in the update.
PatchPage(p, updates) ==
    [p EXCEPT !.current = updates.current,
              !.lastCheckin = IF updates.lastCheckin # NoDay
                              THEN updates.lastCheckin ELSE @]

ApplyUpdate(pid, updates) ==
    [k \in 1..Len(remote) |->
        IF remote[k].id = pid THEN PatchPage(remote[k], updates) ELSE remote[k]]

\* POST: the page the gateway creates from a goal record.
CreatedPage(r, pid) ==
    [id |-> pid,
     current |-> IF r.current # 0 THEN r.current ELSE 0,
     lastCheckin |-> IF r.lastCheckin # NoDay THEN r.lastCheckin ELSE NoDay]

\* The id the remote store gives a new page.
NewPageId == PageId(Len(remote) + 1)

\* One completed remote call, as the remote side saw it.
\* notionService.*: a call yields a result only when the response is ok.
Succeeded(outcome) == outcome = "ok"

\* One completed PATCH of a drain, as the remote side saw it: did is the time
\* of the online event whose drain sent it, ts the timestamp of the pending
\* update it carries.
Call(did, pid, cur, ts, outcome) ==
    [did |-> did, pageId |-> pid, current |-> cur, ts |-> ts, ok |-> Succeeded(outcome)]

\* The history before any remote call.
NothingNoted == [failed |-> FALSE, direct |-> FALSE, created |-> FALSE]

\* The history after a remote call completed with the outcome; direct tells
\* a PATCH sent by updateProgress itself.
Noted(outcome, direct) ==
    [failed |-> hist.failed \/ ~Succeeded(outcome), direct |-> hist.direct \/ direct,
     created |-> hist.created]

\* The history after a Create call completed with the outcome.
NotedCreate(outcome) ==
    [Noted(outcome, FALSE) EXCEPT !.created = @ \/ Succeeded(outcome)]

(***************************************************************************)
(* Local storage and the two save effects.                                 *)
(***************************************************************************)
\* storage.get, lines 56-63, with the `|| []` of its callers: the stored value,
\* or the empty list when reading throws.
StorageGet(content) == IF storageOk THEN content ELSE <<>>

\* storage.set, lines 64-70: the new content of the key; a write that throws
\* is caught and leaves the key as it was.
StorageSet(content, value) == IF storageOk THEN value ELSE content

\* SavePending writing nothing.
SavePendingStale(queue) == storedPending

\* Lines 133-137 and 140-142: the effects that run after the list or the
\* queue changed.
SaveResolutions(list) ==
    IF Len(list) > 0 THEN StorageSet(storedResolutions, list) ELSE storedResolutions

SavePending(queue) == StorageSet(storedPending, queue)

(***************************************************************************)
(* Tasks: remote calls in flight.                                          *)
(***************************************************************************)
One(t) == SetToBag({t})

FetchTask(then) == [kind |-> "fetch", then |-> then]

UpdateTask(pid, updates) == [kind |-> "update", pageId |-> pid, updates |-> updates]

CreateTask(r) == [kind |-> "create", record |-> r]

DrainTask(q, cOnline, did) ==
    [kind |-> "drain", q |-> q, i |-> 1, failed |-> <<>>, cOnline |-> cOnline, did |-> did]

(***************************************************************************)
(* The service worker before any sync event.  Nothing in the page writes   *)
(* the IndexedDB store the service worker drains, so the component's       *)
(* behaviour does not depend on it.                                        *)
(***************************************************************************)
\* The largest number of updates in the IndexedDB store.
MaxQueued == 2
\* The number of sync events the platform dispatches.
MaxSyncs == 2

UpdateKeys == 1..MaxQueued

NotPatched == [id \in UpdateKeys |-> [received |-> 0, accepted |-> 0]]

SwIdle ==
    /\ dbPendingUpdates = {}
    /\ syncRuns = EmptyBag
    /\ patched = NotPatched
    /\ syncEvents = 0

\* undefined, and null.
Undefined == [kind |-> "undefined"]

\* No service worker is registered: no cache exists and no fetch is
\* intercepted.
CacheIdle ==
    /\ caches = <<>>
    /\ worker = [state |-> "parsed", skipWaiting |-> FALSE, toDelete |-> {}, deleted |-> {},
                 installs |-> 0]
    /\ handlers = EmptyBag
    /\ answered = Undefined
    /\ fetchEvents = 0

\* No request is being handled by the gateway.
GatewayIdle ==
    /\ env = [NOTION_API_KEY |-> TRUE, NOTION_DATABASE_ID |-> TRUE]
    /\ req = Undefined
    /\ notionCall = Undefined
    /\ res = Undefined
    /\ serviceResult = Undefined
    /\ progress = Undefined

(***************************************************************************)
(* Initial state: the first render and the mount effects.                  *)
(***************************************************************************)
CachedRecords(c1) ==
    << Resolution(PageId(1), c1, EarlierDay, PageId(1)),
       Resolution(PageId(2), 2, EarlierDay, PageId(2)) >>

RemotePages == << Page(PageId(1), 1, EarlierDay), Page(PageId(2), 2, EarlierDay) >>

\* Queues left in storage by an earlier session: edits of page 1 made offline
\* before this session started (time is counted from the mount).
StoredQueues ==
    { <<>>,
      << PendingUpdate(PageId(1), 2, Today, -1) >>,
      << PendingUpdate(PageId(1), 2, Today, -2), PendingUpdate(PageId(1), 3, Today, -1) >> }

Init ==
    \E online \in BOOLEAN, cached \in BOOLEAN, configured \in BOOLEAN, q \in StoredQueues,
       storage \in BOOLEAN :
        /\ cached => (configured /\ storage)
        /\ ~cached => q = <<>>
        /\ storageOk = storage
        /\ storedResolutions = IF cached THEN CachedRecords(1 + Len(q)) ELSE <<>>
        /\ storedPending = q
        /\ remote = IF configured THEN RemotePages ELSE <<>>
        /\ resolutions = StorageGet(storedResolutions)
        /\ pendingUpdates = StorageGet(storedPending)
        /\ isOnline = online
        /\ mountOnline = online
        /\ mountPending = q
        /\ isSyncing = FALSE
        /\ isLoading = online
        /\ syncStatus = IF online THEN "syncing" ELSE "offline"
        /\ tasks = IF online THEN One(FetchTask("none")) ELSE EmptyBag
        /\ calls = <<>>
        /\ hist = NothingNoted
        /\ clock = 0
        /\ SwIdle
        /\ CacheIdle
        /\ GatewayIdle

(***************************************************************************)
(* fetchResolutions, lines 145-173.  cOnline is the isOnline of the render *)
(* that created the function.                                              *)
(***************************************************************************)
FetchLoading(cOnline) == cOnline

FetchStatus(cOnline) == IF cOnline THEN "syncing" ELSE "offline"

\* FetchSpawn issuing the List call whatever the flag is.
FetchSpawnAlways(cOnline, then) == One(FetchTask(then))

\* Lines 148-155: the List call is issued only past the test of the flag.
FetchSpawn(cOnline, then) == IF cOnline THEN One(FetchTask(then)) ELSE EmptyBag

\* The state the list fetched sets: data when it is non-empty, else the demo
\* data when nothing is cached, else the list stays.
FetchedList(data) ==
    IF Len(data) > 0 THEN data
    ELSE IF Len(StorageGet(storedResolutions)) = 0 THEN getDemoData
    ELSE resolutions

FetchedStatus(data) ==
    IF Len(data) > 0 THEN "synced"
    ELSE IF Len(StorageGet(storedResolutions)) = 0 THEN "demo"
    ELSE "offline"

(***************************************************************************)
(* Connectivity events, lines 108-125.                                     *)
(***************************************************************************)
\* A user or browser event happens: time passes.
Tick == clock < MaxEvents /\ clock' = clock + 1

\* syncPendingUpdates up to its first await, lines 176-185.
SyncStarts(cPending) == Len(cPending) > 0

\* The browser fires 'online' and 'offline' when connectivity changes.  The
\* handler is the one the first render created: its syncPendingUpdates reads
\* mountPending, and the fetchResolutions that one calls reads mountOnline.
HandleOnline ==
    /\ ~isOnline
    /\ Tick
    /\ isOnline' = TRUE
    /\ IF SyncStarts(mountPending)
       THEN /\ isSyncing' = TRUE
            /\ syncStatus' = "syncing"
            /\ tasks' = tasks (+) One(DrainTask(mountPending, mountOnline, clock'))
       ELSE UNCHANGED <<isSyncing, syncStatus, tasks>>
    /\ UNCHANGED <<resolutions, isLoading, pendingUpdates, storedResolutions,
                   storedPending, mountOnline, mountPending, remote, calls, hist>>
    /\ UNCHANGED <<storageOk, swVars, cacheVars, gwVars>>

\* HandleOffline clearing the queue as well.
HandleOfflineClearing ==
    /\ isOnline
    /\ Tick
    /\ isOnline' = FALSE
    /\ syncStatus' = "offline"
    /\ pendingUpdates' = <<>>
    /\ storedPending' = SavePending(pendingUpdates')
    /\ UNCHANGED <<resolutions, isLoading, isSyncing,
                   storedResolutions, mountOnline, mountPending, remote,
                   tasks, calls, hist>>
    /\ UNCHANGED <<storageOk, swVars, cacheVars, gwVars>>

\* Lines 113-116.
HandleOffline ==
    /\ isOnline
    /\ Tick
    /\ isOnline' = FALSE
    /\ syncStatus' = "offline"
    /\ UNCHANGED <<resolutions, isLoading, isSyncing, pendingUpdates,
                   storedResolutions, storedPending, mountOnline, mountPending, remote,
                   tasks, calls, hist>>
    /\ UNCHANGED <<storageOk, swVars, cacheVars, gwVars>>

(***************************************************************************)
(* updateProgress, lines 214-253.  The callback is re-created whenever     *)
(* resolutions or isOnline change, so it reads the current state.          *)
(***************************************************************************)
HasResolution(id) == \E k \in 1..Len(resolutions) : resolutions[k].id = id

\* resolutions.find: the first record with the id.
Find(id) ==
    resolutions[CHOOSE k \in 1..Len(resolutions) :
                    /\ resolutions[k].id = id
                    /\ \A j \in 1..(k - 1) : resolutions[j].id # id]

\* NewCurrent without the clamp.
NewCurrentUnclamped(r, increment) == r.current + increment

\* Line 218.
NewCurrent(r, increment) == Max(0, r.current + increment)

WithProgress(id, cur, day) ==
    [k \in 1..Len(resolutions) |->
        IF resolutions[k].id = id
        THEN [resolutions[k] EXCEPT !.current = cur, !.lastCheckin = day]
        ELSE resolutions[k]]

ProgressUpdates(cur, day) == [current |-> cur, lastCheckin |-> day]

\* Propagate with the offline branch coalescing: a queued update of the same
\* page is overwritten instead of a new one being appended.
PropagateCoalescing(r, newCurrent) ==
    IF r.notionPageId # Null
    THEN IF isOnline
         THEN /\ syncStatus' = "syncing"
              /\ tasks' = tasks (+) One(UpdateTask(r.notionPageId,
                                                   ProgressUpdates(newCurrent, Today)))
              /\ UNCHANGED <<pendingUpdates, storedPending>>
         ELSE /\ pendingUpdates' =
                     IF \E k \in 1..Len(pendingUpdates) :
                            pendingUpdates[k].pageId = r.notionPageId
                     THEN [k \in 1..Len(pendingUpdates) |->
                             IF pendingUpdates[k].pageId = r.notionPageId
                             THEN PendingUpdate(r.notionPageId, newCurrent, Today, clock')
                             ELSE pendingUpdates[k]]
                     ELSE Append(pendingUpdates,
                                 PendingUpdate(r.notionPageId, newCurrent, Today, clock'))
              /\ storedPending' = SavePending(pendingUpdates')
              /\ syncStatus' = "offline"
              /\ UNCHANGED tasks
    ELSE UNCHANGED <<syncStatus, tasks, pendingUpdates, storedPending>>

\* Propagate without the test of line 235.
PropagateUnguarded(r, newCurrent) ==
    IF isOnline
    THEN /\ syncStatus' = "syncing"
         /\ tasks' = tasks (+) One(UpdateTask(r.notionPageId,
                                              ProgressUpdates(newCurrent, Today)))
         /\ UNCHANGED <<pendingUpdates, storedPending>>
    ELSE /\ pendingUpdates' = Append(pendingUpdates,
                PendingUpdate(r.notionPageId, newCurrent, Today, clock'))
         /\ storedPending' = SavePending(pendingUpdates')
         /\ syncStatus' = "offline"
         /\ UNCHANGED tasks

\* Lines 234-252: the remote propagation of one mutation.
Propagate(r, newCurrent) ==
    IF r.notionPageId # Null
    THEN IF isOnline
         THEN /\ syncStatus' = "syncing"
              /\ tasks' = tasks (+) One(UpdateTask(r.notionPageId,
                                                   ProgressUpdates(newCurrent, Today)))
              /\ UNCHANGED <<pendingUpdates, storedPending>>
         ELSE /\ pendingUpdates' = Append(pendingUpdates,
                     PendingUpdate(r.notionPageId, newCurrent, Today, clock'))
              /\ storedPending' = SavePending(pendingUpdates')
              /\ syncStatus' = "offline"
              /\ UNCHANGED tasks
    ELSE UNCHANGED <<syncStatus, tasks, pendingUpdates, storedPending>>

UpdateProgress(id, increment) ==
    /\ HasResolution(id)
    /\ Tick
    /\ LET r == Find(id)
           newCurrent == NewCurrent(r, increment)
       IN  /\ newCurrent <= MaxCurrent
           /\ resolutions' = WithProgress(id, newCurrent, Today)
           /\ storedResolutions' = SaveResolutions(resolutions')
           /\ Propagate(r, newCurrent)
    /\ UNCHANGED <<isLoading, isSyncing, isOnline, mountOnline, mountPending, remote,
                   calls, hist>>
    /\ UNCHANGED <<storageOk, swVars, cacheVars, gwVars>>

\* UpdateStatus leaving the status as it is when the call failed.
UpdateStatusKept(outcome) == IF Succeeded(outcome) THEN "synced" ELSE "syncing"

\* Line 238-242: the PATCH of an online mutation completes.
UpdateStatus(outcome) == IF Succeeded(outcome) THEN "synced" ELSE "error"

UpdateComplete(t, outcome) ==
    /\ BagIn(t, tasks)
    /\ t.kind = "update"
    /\ Succeeded(outcome) => PageExists(t.pageId)
    /\ remote' = IF Succeeded(outcome)
                 THEN ApplyUpdate(t.pageId, t.updates) ELSE remote
    /\ hist' = Noted(outcome, TRUE)
    /\ syncStatus' = UpdateStatus(outcome)
    /\ tasks' = tasks (-) One(t)
    /\ UNCHANGED <<resolutions, isLoading, isSyncing, isOnline, pendingUpdates,
                   storedResolutions, storedPending, mountOnline, mountPending, clock,
                   calls>>
    /\ UNCHANGED <<storageOk, swVars, cacheVars, gwVars>>

(***************************************************************************)
(* syncPendingUpdates, lines 176-199: one action per completed PATCH.      *)
(***************************************************************************)
\* The update the loop is sending.
DrainUpdate(t) == t.q[t.i]

\* FailedAfter pushing the update whatever the result of the call was.
FailedAfterAlways(t, outcome) == Append(t.failed, DrainUpdate(t))

\* Lines 186-188: the failed list after the call completed.
FailedAfter(t, outcome) ==
    IF Succeeded(outcome) THEN t.failed ELSE Append(t.failed, DrainUpdate(t))

DrainCall(t, outcome) ==
    Call(t.did, DrainUpdate(t).pageId,
         DrainUpdate(t).updates.current, DrainUpdate(t).timestamp, outcome)

\* Line 193.
DrainStatus(failed) == IF Len(failed) > 0 THEN "error" ELSE "synced"

DrainStep(t, outcome) ==
    /\ BagIn(t, tasks)
    /\ t.kind = "drain"
    /\ t.i < Len(t.q)
    /\ Succeeded(outcome) => PageExists(DrainUpdate(t).pageId)
    /\ remote' = IF Succeeded(outcome)
                 THEN ApplyUpdate(DrainUpdate(t).pageId, DrainUpdate(t).updates)
                 ELSE remote
    /\ calls' = Append(calls, DrainCall(t, outcome))
    /\ hist' = Noted(outcome, FALSE)
    /\ tasks' = (tasks (-) One(t))
                    (+) One([t EXCEPT !.i = @ + 1, !.failed = FailedAfter(t, outcome)])
    /\ UNCHANGED <<resolutions, isLoading, isSyncing, syncStatus, isOnline,
                   pendingUpdates, storedResolutions, storedPending, mountOnline,
                   mountPending, clock>>
    /\ UNCHANGED <<storageOk, swVars, cacheVars, gwVars>>

\* The last PATCH completes; lines 191-198 run.
DrainFinish(t, outcome) ==
    /\ BagIn(t, tasks)
    /\ t.kind = "drain"
    /\ t.i = Len(t.q)
    /\ Succeeded(outcome) => PageExists(DrainUpdate(t).pageId)
    /\ remote' = IF Succeeded(outcome)
                 THEN ApplyUpdate(DrainUpdate(t).pageId, DrainUpdate(t).updates)
                 ELSE remote
    /\ calls' = Append(calls, DrainCall(t, outcome))
    /\ hist' = Noted(outcome, FALSE)
    /\ LET failed == FailedAfter(t, outcome)
       IN  /\ pendingUpdates' = failed
           /\ storedPending' = SavePending(pendingUpdates')
           /\ isSyncing' = FALSE
           /\ IF Len(failed) = 0
              THEN /\ isLoading' = FetchLoading(t.cOnline)
                   /\ syncStatus' = FetchStatus(t.cOnline)
                   /\ tasks' = (tasks (-) One(t)) (+) FetchSpawn(t.cOnline, "none")
              ELSE /\ syncStatus' = DrainStatus(failed)
                   /\ tasks' = tasks (-) One(t)
                   /\ UNCHANGED isLoading
    /\ UNCHANGED <<resolutions, isOnline, storedResolutions, mountOnline, mountPending,
                   clock>>
    /\ UNCHANGED <<storageOk, swVars, cacheVars, gwVars>>

(***************************************************************************)
(* fetchResolutions from the "Retry Connection" button (line 970) and the  *)
(* completion of the List call (lines 155-172).                            *)
(***************************************************************************)
RetryConnection ==
    /\ syncStatus # "synced"
    /\ Tick
    /\ isLoading' = FetchLoading(isOnline)
    /\ syncStatus' = FetchStatus(isOnline)
    /\ tasks' = tasks (+) FetchSpawn(isOnline, "none")
    /\ UNCHANGED <<resolutions, isSyncing, isOnline, pendingUpdates, storedResolutions,
                   storedPending, mountOnline, mountPending, remote, calls, hist>>
    /\ UNCHANGED <<storageOk, swVars, cacheVars, gwVars>>

\* notionService.fetchResolutions: the array, or null, which line 157 treats
\* like the empty array.
ListData(outcome) == IF Succeeded(outcome) THEN ListResult ELSE <<>>

FetchComplete(t, outcome) ==
    /\ BagIn(t, tasks)
    /\ t.kind = "fetch"
    /\ hist' = Noted(outcome, FALSE)
    /\ resolutions' = FetchedList(ListData(outcome))
    /\ storedResolutions' = SaveResolutions(resolutions')
    /\ syncStatus' = IF t.then = "addSynced"
                     THEN "synced" ELSE FetchedStatus(ListData(outcome))
    /\ isLoading' = FALSE
    /\ tasks' = tasks (-) One(t)
    /\ UNCHANGED <<isSyncing, isOnline, pendingUpdates, storedPending, mountOnline,
                   mountPending, remote, clock, calls>>
    /\ UNCHANGED <<storageOk, swVars, cacheVars, gwVars>>

(***************************************************************************)
(* addResolution, lines 256-286.                                           *)
(***************************************************************************)
NewRecord(ts) == Resolution(LocalId(ts), 0, Today, Null)

AddResolution ==
    /\ Tick
    /\ resolutions' = Append(resolutions, NewRecord(clock'))
    /\ storedResolutions' = SaveResolutions(resolutions')
    /\ IF isOnline
       THEN /\ syncStatus' = "syncing"
            /\ tasks' = tasks (+) One(CreateTask(NewRecord(clock')))
       ELSE UNCHANGED <<syncStatus, tasks>>
    /\ UNCHANGED <<isLoading, isSyncing, isOnline, pendingUpdates, storedPending,
                   mountOnline, mountPending, remote, calls, hist>>
    /\ UNCHANGED <<storageOk, swVars, cacheVars, gwVars>>

\* Lines 276-284: the POST completes.  The fetchResolutions awaited at line
\* 279 belongs to a render in which isOnline was true.
CreateComplete(t, outcome) ==
    /\ BagIn(t, tasks)
    /\ t.kind = "create"
    /\ hist' = NotedCreate(outcome)
    /\ IF Succeeded(outcome)
       THEN /\ remote' = Append(remote, CreatedPage(t.record, NewPageId))
            /\ isLoading' = FetchLoading(TRUE)
            /\ syncStatus' = FetchStatus(TRUE)
            /\ tasks' = (tasks (-) One(t)) (+) FetchSpawn(TRUE, "addSynced")
       ELSE /\ syncStatus' = "error"
            /\ tasks' = tasks (-) One(t)
            /\ UNCHANGED <<remote, isLoading>>
    /\ UNCHANGED <<resolutions, isSyncing, isOnline, pendingUpdates, storedResolutions,
                   storedPending, mountOnline, mountPending, clock, calls>>
    /\ UNCHANGED <<storageOk, swVars, cacheVars, gwVars>>

(***************************************************************************)
(* The specification.                                                      *)
(***************************************************************************)
\* The goals whose +/- buttons are pressed.
ClickIds == {PageId(1), DemoId(1)} \cup {LocalId(ts) : ts \in 1..MaxEvents}

Increments == {-1, 1}

\* The user presses + or - on a goal.
Progress == \E id \in ClickIds, increment \in Increments : UpdateProgress(id, increment)

\* A remote call in flight completes with some outcome.
UpdateCompletes == \E t \in BagToSet(tasks), outcome \in Outcomes : UpdateComplete(t, outcome)

DrainSteps == \E t \in BagToSet(tasks), outcome \in Outcomes : DrainStep(t, outcome)

DrainFinishes == \E t \in BagToSet(tasks), outcome \in Outcomes : DrainFinish(t, outcome)

FetchCompletes == \E t \in BagToSet(tasks), outcome \in Outcomes : FetchComplete(t, outcome)

CreateCompletes == \E t \in BagToSet(tasks), outcome \in Outcomes : CreateComplete(t, outcome)

Next ==
    \/ HandleOnline
    \/ HandleOffline
    \/ Progress
    \/ UpdateCompletes
    \/ DrainSteps
    \/ DrainFinishes
    \/ RetryConnection
    \/ FetchCompletes
    \/ AddResolution
    \/ CreateCompletes

Spec == Init /\ [][Next]_vars

(***************************************************************************)
(* The background replay of the service worker, public/service-worker.js   *)
(* lines 155-185.  A call of syncResolutions is an entry of syncRuns: pc   *)
(* tells which await it is suspended at, pendingUpdates is the array that  *)
(* getAll returned and i the position of the loop in it.                   *)
(***************************************************************************)
\* The tags of the sync events the platform dispatches.
Tags == {"sync-resolutions", "periodic-check"}

RECURSIVE InKeyOrder(_)
\* getAll, lines 248-253: the records of the store in the order of their keys.
InKeyOrder(keys) ==
    IF keys = {} THEN <<>>
    ELSE LET least == CHOOSE k \in keys : \A j \in keys : k <= j
         IN  <<least>> \o InKeyOrder(keys \ {least})

\* syncResolutions suspended at line 167.
SyncStarted == [pc |-> "getAll", pendingUpdates |-> <<>>, i |-> 0]

\* The key of the update the loop is at.
SyncUpdate(run) == run.pendingUpdates[run.i]

\* Lines 156-162: the listener.
SyncEvent(tag) ==
    /\ syncEvents < MaxSyncs
    /\ syncEvents' = syncEvents + 1
    /\ syncRuns' = IF tag = "sync-resolutions" THEN syncRuns (+) One(SyncStarted)
                   ELSE syncRuns
    /\ UNCHANGED <<dbPendingUpdates, patched>>
    /\ UNCHANGED <<appVars, cacheVars, gwVars>>

\* Lines 167-170: the database is open and getAll has returned; the loop
\* starts, or ends at once when the array is empty.
SyncGetAll(run) ==
    /\ BagIn(run, syncRuns)
    /\ run.pc = "getAll"
    /\ LET all == InKeyOrder(dbPendingUpdates)
       IN  syncRuns' = IF Len(all) = 0
                       THEN syncRuns (-) One(run)
                       ELSE (syncRuns (-) One(run))
                                (+) One([pc |-> "fetch", pendingUpdates |-> all, i |-> 1])
    /\ UNCHANGED <<dbPendingUpdates, patched, syncEvents>>
    /\ UNCHANGED <<appVars, cacheVars, gwVars>>

\* What the remote side has seen of the update after one more PATCH got the
\* response.
Patched(id, outcome) ==
    [patched EXCEPT ![id] = [received |-> @.received + 1,
                             accepted |-> @.accepted + (IF Succeeded(outcome) THEN 1 ELSE 0)]]

\* Lines 171-175: the PATCH completes.  A network error rejects the fetch:
\* the catch of line 181 rethrows and the call ends.  Any response, 2xx or
\* not, resolves it, and line 177 goes on to delete the update.
SyncFetchDone(run, outcome) ==
    /\ BagIn(run, syncRuns)
    /\ run.pc = "fetch"
    /\ IF outcome = "neterr"
       THEN /\ syncRuns' = syncRuns (-) One(run)
            /\ UNCHANGED patched
       ELSE /\ syncRuns' = (syncRuns (-) One(run)) (+) One([run EXCEPT !.pc = "delete"])
            /\ patched' = Patched(SyncUpdate(run), outcome)
    /\ UNCHANGED <<dbPendingUpdates, syncEvents>>
    /\ UNCHANGED <<appVars, cacheVars, gwVars>>

\* Line 177: the delete completes, whether the key was still there or not,
\* and the loop goes on to the next update or ends.
SyncDeleteDone(run) ==
    /\ BagIn(run, syncRuns)
    /\ run.pc = "delete"
    /\ dbPendingUpdates' = dbPendingUpdates \ {SyncUpdate(run)}
    /\ syncRuns' = IF run.i = Len(run.pendingUpdates)
                   THEN syncRuns (-) One(run)
                   ELSE (syncRuns (-) One(run))
                            (+) One([run EXCEPT !.pc = "fetch", !.i = @ + 1])
    /\ UNCHANGED <<patched, syncEvents>>
    /\ UNCHANGED <<appVars, cacheVars, gwVars>>

\* The page is not open: the service worker runs on its own.
AppIdle ==
    /\ resolutions = <<>>
    /\ isLoading = FALSE
    /\ isSyncing = FALSE
    /\ syncStatus = "offline"
    /\ isOnline = FALSE
    /\ pendingUpdates = <<>>
    /\ storedResolutions = <<>>
    /\ storedPending = <<>>
    /\ mountOnline = FALSE
    /\ mountPending = <<>>
    /\ remote = <<>>
    /\ tasks = EmptyBag
    /\ calls = <<>>
    /\ hist = NothingNoted
    /\ clock = 0
    /\ storageOk = TRUE

\* The store holds the updates queued for the background replay.
SyncInit ==
    /\ AppIdle
    /\ CacheIdle
    /\ GatewayIdle
    /\ dbPendingUpdates \in SUBSET UpdateKeys
    /\ syncRuns = EmptyBag
    /\ patched = NotPatched
    /\ syncEvents = 0

\* The platform dispatches a sync event.
SyncEvents == \E tag \in Tags : SyncEvent(tag)

SyncGetAlls == \E run \in BagToSet(syncRuns) : SyncGetAll(run)

SyncFetchDones == \E run \in BagToSet(syncRuns), outcome \in Outcomes : SyncFetchDone(run, outcome)

SyncDeleteDones == \E run \in BagToSet(syncRuns) : SyncDeleteDone(run)

SyncNext ==
    \/ SyncEvents
    \/ SyncGetAlls
    \/ SyncFetchDones
    \/ SyncDeleteDones

SyncSpec == SyncInit /\ [][SyncNext]_vars

(***************************************************************************)
(* The caches of the service worker, public/service-worker.js lines 1-153. *)
(* A URL is an origin and a pathname; a pathname, like every string that   *)
(* the code takes prefixes or suffixes of, is the sequence of its parts,   *)
(* so that startsWith is the prefix of sequences and the extension is the  *)
(* last part.  The CacheStorage is the sequence of its caches in the order *)
(* of their creation, which is the order caches.match searches them in.    *)
(***************************************************************************)
\* The number of fetch events the worker intercepts.
MaxFetches == 2
\* The number of times the browser tries to install the worker.
MaxInstalls == 2

\* Lines 5-6.
STATIC_CACHE == "static-v1"

DYNAMIC_CACHE == "dynamic-v1"

\* The origin the worker is served from, and the origin of the font sheet.
Self == "https://app"

Fonts == "https://fonts.googleapis.com"

Url(origin, pathname) == [origin |-> origin, pathname |-> pathname]

\* Lines 9-18.
STATIC_ASSETS ==
    << <<"/">>,
       <<"/index", ".html">>,
       <<"/manifest", ".json">>,
       <<"/styles", ".css">>,
       <<"/app", ".js">>,
       <<"/icons", "/icon-192", ".png">>,
       <<"/icons", "/icon-512", ".png">>,
       <<Fonts, "/css2">> >>

\* Lines 21-24.
API_ENDPOINTS == << <<"/api", "/resolutions">>, <<"/api", "/user">> >>

\* The URL a string names for the worker: absolute when it starts with an
\* origin, else relative to the worker's origin.
Resolve(string) ==
    IF string[1] \in {Self, Fonts}
    THEN Url(string[1], Tail(string))
    ELSE Url(Self, string)

Request(method, url, accept) == [method |-> method, url |-> url, accept |-> accept]

\* The key a cache files a request under.
Key(request) == [method |-> request.method, url |-> request.url]

\* String.prototype.startsWith.
StartsWith(string, prefix) ==
    /\ Len(prefix) <= Len(string)
    /\ SubSeq(string, 1, Len(prefix)) = prefix

\* Line 77: /\.(js|css|png|jpg|jpeg|svg|woff2?)$/.
MatchesExtension(pathname) ==
    /\ Len(pathname) > 0
    /\ pathname[Len(pathname)] \in {".js", ".css", ".png", ".jpg", ".jpeg", ".svg",
                                   ".woff", ".woff2"}

\* Lines 83 and 127: request.headers.get('accept')?.includes('text/html').
AcceptsHtml(request) == "text/html" \in request.accept

\* Route without the test of the method.
RouteAnyMethod(request) ==
    IF \E k \in 1..Len(API_ENDPOINTS) :
           StartsWith(request.url.pathname, API_ENDPOINTS[k])
    THEN "networkFirst"
    ELSE IF \/ \E k \in 1..Len(STATIC_ASSETS) : STATIC_ASSETS[k] = request.url.pathname
            \/ MatchesExtension(request.url.pathname)
    THEN "cacheFirst"
    ELSE IF AcceptsHtml(request) THEN "networkFirst"
    ELSE "staleWhileRevalidate"

\* Route with the extension rule tried before the API rule.
RouteExtensionFirst(request) ==
    IF request.method # "GET" THEN "none"
    ELSE IF \/ \E k \in 1..Len(STATIC_ASSETS) : STATIC_ASSETS[k] = request.url.pathname
            \/ MatchesExtension(request.url.pathname)
    THEN "cacheFirst"
    ELSE IF \E k \in 1..Len(API_ENDPOINTS) :
                StartsWith(request.url.pathname, API_ENDPOINTS[k])
    THEN "networkFirst"
    ELSE IF AcceptsHtml(request) THEN "networkFirst"
    ELSE "staleWhileRevalidate"

\* Lines 61-90: the strategy the fetch listener answers the request with;
\* "none" when it returns without respondWith.
Route(request) ==
    IF request.method # "GET" THEN "none"
    ELSE IF \E k \in 1..Len(API_ENDPOINTS) :
                StartsWith(request.url.pathname, API_ENDPOINTS[k])
    THEN "networkFirst"
    ELSE IF \/ \E k \in 1..Len(STATIC_ASSETS) : STATIC_ASSETS[k] = request.url.pathname
            \/ MatchesExtension(request.url.pathname)
    THEN "cacheFirst"
    ELSE IF AcceptsHtml(request) THEN "networkFirst"
    ELSE "staleWhileRevalidate"

\* A response of the network: the resource as it was after `at` fetch events.
NetworkResponse(outcome, at) ==
    [kind |-> "response", ok |-> Succeeded(outcome),
     status |-> IF Succeeded(outcome) THEN 200 ELSE 404, body |-> "resource", at |-> at]

\* Line 107: new Response('Offline', { status: 503 }).
OfflineResponse ==
    [kind |-> "response", ok |-> FALSE, status |-> 503, body |-> "Offline", at |-> 0]

\* Lines 131-134.
OfflineJsonResponse ==
    [kind |-> "response", ok |-> FALSE, status |-> 503, body |-> "{error: Offline}", at |-> 0]

Entry(key, response, by) == [key |-> key, response |-> response, by |-> by]

\* caches.open: the cache is created, last in the order, when it is missing.
CachesOpen(cs, name) ==
    IF \E k \in 1..Len(cs) : cs[k].name = name
    THEN cs
    ELSE Append(cs, [name |-> name, entries |-> {}])

\* cache.put on the cache opened by its name: the entry replaces the one
\* with the same key.
CachePut(cs, name, key, response, by) ==
    LET opened == CachesOpen(cs, name)
    IN  [k \in 1..Len(opened) |->
            IF opened[k].name = name
            THEN [opened[k] EXCEPT
                    !.entries = {e \in @ : e.key # key} \cup {Entry(key, response, by)}]
            ELSE opened[k]]

CacheHas(cache, key) == \E e \in cache.entries : e.key = key

\* caches.match: the response of the first cache, in creation order, that has
\* the key; undefined when none has.
CachesMatch(cs, key) ==
    IF \E k \in 1..Len(cs) : CacheHas(cs[k], key)
    THEN LET first == CHOOSE k \in 1..Len(cs) :
                          /\ CacheHas(cs[k], key)
                          /\ \A j \in 1..(k - 1) : ~CacheHas(cs[j], key)
         IN  (CHOOSE e \in cs[first].entries : e.key = key).response
    ELSE Undefined

\* caches.delete.
CachesDelete(cs, name) == SelectSeq(cs, LAMBDA c : c.name # name)

\* caches.keys.
CachesKeys(cs) == {cs[k].name : k \in 1..Len(cs)}

(***************************************************************************)
(* Install and activate, lines 27-58.                                      *)
(***************************************************************************)
AssetRequest(k) == Request("GET", Resolve(STATIC_ASSETS[k]), {})

RECURSIVE PutAssets(_, _, _)
\* The cache storage after the assets of the set were put in the static cache.
PutAssets(cs, assets, at) ==
    IF assets = {} THEN cs
    ELSE LET k == CHOOSE a \in assets : TRUE
         IN  PutAssets(CachePut(cs, STATIC_CACHE, Key(AssetRequest(k)),
                                NetworkResponse("ok", at), "install"),
                       assets \ {k}, at)

\* AddAll storing the assets it could fetch.
AddAllPartial(cs, failed, at) ==
    PutAssets(cs, (1..Len(STATIC_ASSETS)) \ failed, at)

\* cache.addAll(STATIC_ASSETS), line 34: every asset is fetched, and they are
\* stored together only when no fetch failed.
AddAll(cs, failed, at) ==
    IF failed = {} THEN PutAssets(cs, 1..Len(STATIC_ASSETS), at) ELSE cs

\* Lines 27-31: the install event; caches.open has resolved.
InstallOpen ==
    /\ worker.state \in {"parsed", "redundant"}
    /\ worker.installs < MaxInstalls
    /\ caches' = CachesOpen(caches, STATIC_CACHE)
    /\ worker' = [worker EXCEPT !.state = "installing", !.installs = @ + 1]
    /\ UNCHANGED <<handlers, answered, fetchEvents>>
    /\ UNCHANGED <<appVars, swVars, gwVars>>

\* Lines 32-36: addAll has settled; failed are the assets whose fetch failed.
\* When it resolved, skipWaiting is called; when it rejected, waitUntil
\* rejects and the installation fails.
InstallAddAll(failed) ==
    /\ worker.state = "installing"
    /\ caches' = AddAll(caches, failed, fetchEvents)
    /\ worker' = IF failed = {}
                 THEN [worker EXCEPT !.state = "installed", !.skipWaiting = TRUE]
                 ELSE [worker EXCEPT !.state = "redundant"]
    /\ UNCHANGED <<handlers, answered, fetchEvents>>
    /\ UNCHANGED <<appVars, swVars, gwVars>>

\* Stale keeping every cache whose name starts with 'dynamic'.
StaleKeepingDynamic(name) == name \notin {STATIC_CACHE, DYNAMIC_CACHE, "dynamic-v0"}

\* Line 49: the names the activate handler deletes.
Stale(name) == name # STATIC_CACHE /\ name # DYNAMIC_CACHE

\* Lines 41-49: the activate event; caches.keys has resolved.
ActivateKeys ==
    /\ worker.state = "installed"
    /\ worker' = [worker EXCEPT !.state = "activating",
                                !.toDelete = {name \in CachesKeys(caches) : Stale(name)}]
    /\ UNCHANGED <<caches, handlers, answered, fetchEvents>>
    /\ UNCHANGED <<appVars, swVars, gwVars>>

\* Lines 50-53: one caches.delete has resolved.
ActivateDelete(name) ==
    /\ worker.state = "activating"
    /\ name \in worker.toDelete
    /\ caches' = CachesDelete(caches, name)
    /\ worker' = [worker EXCEPT !.toDelete = @ \ {name}, !.deleted = @ \cup {name}]
    /\ UNCHANGED <<handlers, answered, fetchEvents>>
    /\ UNCHANGED <<appVars, swVars, gwVars>>

\* Lines 54-56: Promise.all has resolved; clients.claim, and the handler is
\* complete.
ActivateClaim ==
    /\ worker.state = "activating"
    /\ worker.toDelete = {}
    /\ worker' = [worker EXCEPT !.state = "activated"]
    /\ UNCHANGED <<caches, handlers, answered, fetchEvents>>
    /\ UNCHANGED <<appVars, swVars, gwVars>>

(***************************************************************************)
(* The fetch listener and its three strategies, lines 61-153.  A handler   *)
(* is one running strategy: its request, the await it is at, the cached    *)
(* response it holds and whether the event was already answered.  The      *)
(* variable answered is the last answer given to respondWith.              *)
(***************************************************************************)
\* The first await of each strategy: lines 113, 94 and 140.
Started(strategy, request) ==
    [strategy |-> strategy, request |-> request,
     pc |-> IF strategy = "networkFirst" THEN "fetch" ELSE "match",
     cached |-> Undefined, responded |-> FALSE]

Answer(h, response) ==
    [request |-> h.request, strategy |-> h.strategy, response |-> response]

At(h, strategy, pc) == BagIn(h, handlers) /\ h.strategy = strategy /\ h.pc = pc

\* The requests the pages make.
Requests ==
    { Request("GET", Url(Self, <<"/">>), {"text/html"}),
      Request("GET", Url(Self, <<"/api", "/resolutions", "/export", ".js">>), {}),
      Request("GET", Url(Self, <<"/api", "/notion", "/resolutions">>), {}),
      Request("PATCH", Url(Self, <<"/api", "/resolutions">>), {}),
      Request("GET", Url(Self, <<"/about">>), {"text/html"}),
      Request("GET", Url(Self, <<"/logo", ".png">>), {}),
      Request("GET", Url(Fonts, <<"/css2">>), {}) }

\* Lines 61-90: a fetch event; they are dispatched to the active worker only.
FetchEvent(request) ==
    /\ worker.state = "activated"
    /\ fetchEvents < MaxFetches
    /\ fetchEvents' = fetchEvents + 1
    /\ handlers' = IF Route(request) = "none"
                   THEN handlers
                   ELSE handlers (+) One(Started(Route(request), request))
    /\ UNCHANGED <<caches, worker, answered>>
    /\ UNCHANGED <<appVars, swVars, gwVars>>

\* Lines 94-97: caches.match has resolved.
CacheFirstMatch(h) ==
    /\ At(h, "cacheFirst", "match")
    /\ LET cached == CachesMatch(caches, Key(h.request))
       IN  IF cached # Undefined
           THEN /\ answered' = Answer(h, cached)
                /\ handlers' = handlers (-) One(h)
           ELSE /\ handlers' = (handlers (-) One(h)) (+) One([h EXCEPT !.pc = "fetch"])
                /\ UNCHANGED answered
    /\ UNCHANGED <<caches, worker, fetchEvents>>
    /\ UNCHANGED <<appVars, swVars, gwVars>>

\* CacheFirstFetched storing the response whatever its status.
CacheFirstFetchedStoringAll(h, outcome) ==
    /\ At(h, "cacheFirst", "fetch")
    /\ LET response == NetworkResponse(outcome, fetchEvents)
       IN  IF outcome = "neterr"
           THEN /\ answered' = Answer(h, OfflineResponse)
                /\ UNCHANGED caches
           ELSE /\ caches' = CachePut(caches, STATIC_CACHE, Key(h.request), response,
                                      "cacheFirst")
                /\ answered' = Answer(h, response)
    /\ handlers' = handlers (-) One(h)
    /\ UNCHANGED <<worker, fetchEvents>>
    /\ UNCHANGED <<appVars, swVars, gwVars>>

\* Lines 99-108: fetch has settled.
CacheFirstFetched(h, outcome) ==
    /\ At(h, "cacheFirst", "fetch")
    /\ LET response == NetworkResponse(outcome, fetchEvents)
       IN  IF outcome = "neterr"
           THEN /\ answered' = Answer(h, OfflineResponse)
                /\ UNCHANGED caches
           ELSE /\ caches' = IF response.ok
                             THEN CachePut(caches, STATIC_CACHE, Key(h.request), response,
                                           "cacheFirst")
                             ELSE caches
                /\ answered' = Answer(h, response)
    /\ handlers' = handlers (-) One(h)
    /\ UNCHANGED <<worker, fetchEvents>>
    /\ UNCHANGED <<appVars, swVars, gwVars>>

\* NetworkFirstFetched storing the response whatever its status.
NetworkFirstFetchedStoringAll(h, outcome) ==
    /\ At(h, "networkFirst", "fetch")
    /\ LET response == NetworkResponse(outcome, fetchEvents)
       IN  IF outcome = "neterr"
           THEN /\ handlers' = (handlers (-) One(h)) (+) One([h EXCEPT !.pc = "match"])
                /\ UNCHANGED <<caches, answered>>
           ELSE /\ caches' = CachePut(caches, DYNAMIC_CACHE, Key(h.request), response,
                                      "networkFirst")
                /\ answered' = Answer(h, response)
                /\ handlers' = handlers (-) One(h)
    /\ UNCHANGED <<worker, fetchEvents>>
    /\ UNCHANGED <<appVars, swVars, gwVars>>

\* Lines 113-120: fetch has settled; a rejection enters the catch block.
NetworkFirstFetched(h, outcome) ==
    /\ At(h, "networkFirst", "fetch")
    /\ LET response == NetworkResponse(outcome, fetchEvents)
       IN  IF outcome = "neterr"
           THEN /\ handlers' = (handlers (-) One(h)) (+) One([h EXCEPT !.pc = "match"])
                /\ UNCHANGED <<caches, answered>>
           ELSE /\ caches' = IF response.ok
                             THEN CachePut(caches, DYNAMIC_CACHE, Key(h.request), response,
                                           "networkFirst")
                             ELSE caches
                /\ answered' = Answer(h, response)
                /\ handlers' = handlers (-) One(h)
    /\ UNCHANGED <<worker, fetchEvents>>
    /\ UNCHANGED <<appVars, swVars, gwVars>>

\* Lines 122-135: caches.match has resolved in the catch block.
NetworkFirstMatch(h) ==
    /\ At(h, "networkFirst", "match")
    /\ LET cached == CachesMatch(caches, Key(h.request))
       IN  IF cached # Undefined
           THEN /\ answered' = Answer(h, cached)
                /\ handlers' = handlers (-) One(h)
           ELSE IF AcceptsHtml(h.request)
           THEN /\ handlers' = (handlers (-) One(h)) (+) One([h EXCEPT !.pc = "offline"])
                /\ UNCHANGED answered
           ELSE /\ answered' = Answer(h, OfflineJsonResponse)
                /\ handlers' = handlers (-) One(h)
    /\ UNCHANGED <<caches, worker, fetchEvents>>
    /\ UNCHANGED <<appVars, swVars, gwVars>>

\* Line 128: caches.match('/offline.html') has resolved, and is the answer.
NetworkFirstOffline(h) ==
    /\ At(h, "networkFirst", "offline")
    /\ answered' = Answer(h, CachesMatch(caches,
                                 Key(Request("GET", Resolve(<<"/offline", ".html">>), {}))))
    /\ handlers' = handlers (-) One(h)
    /\ UNCHANGED <<caches, worker, fetchEvents>>
    /\ UNCHANGED <<appVars, swVars, gwVars>>

\* Lines 140-152: caches.match has resolved and fetch was called; the
\* function returns cached || fetchPromise, so a cached response answers now.
StaleMatch(h) ==
    /\ At(h, "staleWhileRevalidate", "match")
    /\ LET cached == CachesMatch(caches, Key(h.request))
       IN  /\ handlers' = (handlers (-) One(h))
                            (+) One([h EXCEPT !.pc = "fetch", !.cached = cached,
                                              !.responded = (cached # Undefined)])
           /\ answered' = IF cached # Undefined THEN Answer(h, cached) ELSE answered
    /\ UNCHANGED <<caches, worker, fetchEvents>>
    /\ UNCHANGED <<appVars, swVars, gwVars>>

\* Lines 142-150: the fetch of the revalidation has settled; a rejection is
\* caught and replaced by the cached value.
StaleFetched(h, outcome) ==
    /\ At(h, "staleWhileRevalidate", "fetch")
    /\ LET response == NetworkResponse(outcome, fetchEvents)
           result   == IF outcome = "neterr" THEN h.cached ELSE response
       IN  /\ caches' = IF outcome # "neterr" /\ response.ok
                        THEN CachePut(caches, DYNAMIC_CACHE, Key(h.request), response,
                                      "staleWhileRevalidate")
                        ELSE caches
           /\ answered' = IF h.responded THEN answered ELSE Answer(h, result)
    /\ handlers' = handlers (-) One(h)
    /\ UNCHANGED <<worker, fetchEvents>>
    /\ UNCHANGED <<appVars, swVars, gwVars>>

\* The cache storages the worker can find when it is installed: none, the
\* caches of the previous version, or a dynamic cache left by an earlier
\* installation of this version.
InitialCaches ==
    { <<>>,
      << [name |-> "static-v0",
          entries |-> {Entry(Key(AssetRequest(1)), NetworkResponse("ok", -1), "prior")}],
         [name |-> "dynamic-v0",
          entries |-> {Entry([method |-> "GET", url |-> Url(Self, <<"/about">>)],
                             NetworkResponse("ok", -1), "prior")}] >>,
      << [name |-> DYNAMIC_CACHE,
          entries |-> {Entry(Key(AssetRequest(8)), NetworkResponse("ok", -1), "prior")}] >> }

CacheInit ==
    /\ AppIdle
    /\ SwIdle
    /\ GatewayIdle
    /\ caches \in InitialCaches
    /\ worker = [state |-> "parsed", skipWaiting |-> FALSE, toDelete |-> {}, deleted |-> {},
                 installs |-> 0]
    /\ handlers = EmptyBag
    /\ answered = Undefined
    /\ fetchEvents = 0

CacheNext ==
    \/ InstallOpen
    \/ \E failed \in SUBSET (1..Len(STATIC_ASSETS)) : InstallAddAll(failed)
    \/ ActivateKeys
    \/ \E name \in worker.toDelete : ActivateDelete(name)
    \/ ActivateClaim
    \/ \E request \in Requests : FetchEvent(request)
    \/ \E h \in BagToSet(handlers) :
           \/ CacheFirstMatch(h)
           \/ \E outcome \in Outcomes : CacheFirstFetched(h, outcome)
           \/ \E outcome \in Outcomes : NetworkFirstFetched(h, outcome)
           \/ NetworkFirstMatch(h)
           \/ NetworkFirstOffline(h)
           \/ StaleMatch(h)
           \/ \E outcome \in Outcomes : StaleFetched(h, outcome)

CacheSpec == CacheInit /\ [][CacheNext]_vars

(***************************************************************************)
(* The gateway, api/notion/resolutions.js, and the notionService functions *)
(* of the client that call it.  A JavaScript value is Undefined, JsNull, a *)
(* number Num(n), a string Str(s), an array Arr(seq) or an object, which   *)
(* is a record or, where the keys are no identifiers, a function of the    *)
(* key strings; a key that is missing maps to Undefined.                   *)
(***************************************************************************)
JsNull == [kind |-> "null"]

Num(n) == [number |-> n]

Str(s) == [string |-> s]

Arr(seq) == [array |-> seq]

\* The conversion to boolean of if (v) and v || d.
Truthy(v) == v # Undefined /\ v # JsNull /\ v # Num(0) /\ v # Str("")

\* v || d.
Or(v, d) == IF Truthy(v) THEN v ELSE d

\* v?.field.
Chain(v, field) == IF v = Undefined \/ v = JsNull THEN Undefined ELSE v[field]

\* v?.[0].
First(v) ==
    IF v = Undefined \/ v = JsNull THEN Undefined
    ELSE IF Len(v.array) > 0 THEN v.array[1] ELSE Undefined

\* The properties of the Notion database, lines 64-71.
PropertyNames ==
    {"Resolution", "Category", "Target", "Current Progress", "Unit", "Frequency",
     "Streak", "Last Check-in"}

\* TransformPage without the defaults.
TransformPageBare(page) ==
    [id |-> page.id,
     notionPageId |-> page.id,
     title |-> Chain(First(Chain(page.properties["Resolution"], "title")), "plain_text"),
     category |-> Chain(Chain(page.properties["Category"], "select"), "name"),
     target |-> Chain(page.properties["Target"], "number"),
     current |-> Chain(page.properties["Current Progress"], "number"),
     unit |-> Chain(Chain(page.properties["Unit"], "select"), "name"),
     frequency |-> Chain(Chain(page.properties["Frequency"], "select"), "name"),
     streak |-> Chain(page.properties["Streak"], "number"),
     lastCheckin |-> Chain(Chain(page.properties["Last Check-in"], "date"), "start")]

\* Lines 61-72: the goal record of a Notion page.
TransformPage(page) ==
    [id |-> page.id,
     notionPageId |-> page.id,
     title |-> Or(Chain(First(Chain(page.properties["Resolution"], "title")), "plain_text"),
                  Str("Untitled")),
     category |-> Or(Chain(Chain(page.properties["Category"], "select"), "name"),
                     Str("Personal Growth")),
     target |-> Or(Chain(page.properties["Target"], "number"), Num(0)),
     current |-> Or(Chain(page.properties["Current Progress"], "number"), Num(0)),
     unit |-> Or(Chain(Chain(page.properties["Unit"], "select"), "name"), Str("times")),
     frequency |-> Or(Chain(Chain(page.properties["Frequency"], "select"), "name"),
                      Str("weekly")),
     streak |-> Or(Chain(page.properties["Streak"], "number"), Num(0)),
     lastCheckin |-> Or(Chain(Chain(page.properties["Last Check-in"], "date"), "start"),
                        Str(""))]

\* Lines 88-120: the properties the PATCH branch sends for the updates.
PatchProperties(updates) ==
    [name \in PropertyNames |->
        CASE name = "Current Progress" ->
                 IF updates.current # Undefined THEN [number |-> updates.current]
                 ELSE Undefined
          [] name = "Last Check-in" ->
                 IF Truthy(updates.lastCheckin)
                 THEN [date |-> [start |-> updates.lastCheckin]] ELSE Undefined
          [] name = "Streak" ->
                 IF updates.streak # Undefined THEN [number |-> updates.streak]
                 ELSE Undefined
          [] name = "Resolution" ->
                 IF Truthy(updates.title)
                 THEN [title |-> Arr(<<[text |-> [content |-> updates.title]]>>)]
                 ELSE Undefined
          [] name = "Category" ->
                 IF Truthy(updates.category)
                 THEN [select |-> [name |-> updates.category]] ELSE Undefined
          [] name = "Target" ->
                 IF updates.target # Undefined THEN [number |-> updates.target]
                 ELSE Undefined
          [] name = "Unit" ->
                 IF Truthy(updates.unit)
                 THEN [select |-> [name |-> updates.unit]] ELSE Undefined
          [] name = "Frequency" ->
                 IF Truthy(updates.frequency)
                 THEN [select |-> [name |-> updates.frequency]] ELSE Undefined]

\* Lines 153-183: the properties the POST branch sends for the body.
PostProperties(body) ==
    [name \in PropertyNames |->
        CASE name = "Resolution" -> [title |-> Arr(<<[text |-> [content |-> body.title]]>>)]
          [] name = "Category" ->
                 [select |-> [name |-> Or(body.category, Str("Personal Growth"))]]
          [] name = "Target" -> [number |-> Or(body.target, Num(0))]
          [] name = "Current Progress" -> [number |-> Or(body.current, Num(0))]
          [] name = "Unit" -> [select |-> [name |-> Or(body.unit, Str("times"))]]
          [] name = "Frequency" -> [select |-> [name |-> Or(body.frequency, Str("weekly"))]]
          [] name = "Streak" -> [number |-> Or(body.streak, Num(0))]
          [] name = "Last Check-in" ->
                 IF Truthy(body.lastCheckin)
                 THEN [date |-> [start |-> body.lastCheckin]] ELSE Undefined]

\* res.status(status).json(body); res.status(status).end() has no body.
Json(status, body) == [status |-> status, body |-> body]

\* The call of fetch on the Notion API; response is what it resolved to.
NotionFetch(method, path, body) ==
    [method |-> method, path |-> path, body |-> body, response |-> Undefined]

\* The answer to a Notion response that is not ok, with the status 500.
ErrorAnswerInternal(response, text) ==
    Json(500, [error |-> text, details |-> response.json])

\* Lines 53-57, 130-134, 192-196 and 219-223: the answer to a Notion
\* response that is not ok.
ErrorAnswer(response, text) ==
    Json(response.status, [error |-> text, details |-> response.json])

\* Lines 235-241: the catch block.
InternalError == Json(500, [error |-> "Internal server error"])

(***************************************************************************)
(* The requests the gateway receives and the answers of the Notion API.    *)
(***************************************************************************)
NumberValues == {Undefined, Num(0), Num(7)}

StringValues == {Undefined, Str(""), Str("x")}

\* The partial updates of a PATCH: every field is absent or has a value,
\* which may be 0 or the empty string.
UpdateObjects ==
    [current : NumberValues, lastCheckin : StringValues, streak : NumberValues,
     title : StringValues, category : StringValues, target : NumberValues,
     unit : StringValues, frequency : StringValues]

\* The bodies of a POST.
PostBodies ==
    [title : {Undefined, Str(""), Str("Run")}, category : {Undefined, Str("Health")},
     target : NumberValues, current : {Undefined, Num(1)}, unit : {Undefined, Str("km")},
     frequency : {Undefined, Str("daily")}, streak : {Undefined, Num(2)},
     lastCheckin : StringValues]

NotionId(n) == Str(<<"page", n>>)

GatewayRequests ==
    { [method |-> "OPTIONS", body |-> Undefined], [method |-> "GET", body |-> Undefined],
      [method |-> "PUT", body |-> Undefined], [method |-> "PATCH", body |-> Undefined],
      [method |-> "PATCH", body |-> [pageId |-> NotionId(1), updates |-> Undefined]],
      [method |-> "DELETE", body |-> [pageId |-> Undefined]],
      [method |-> "DELETE", body |-> [pageId |-> NotionId(1)]] }
    \cup {[method |-> "PATCH", body |-> [pageId |-> id, updates |-> updates]] :
              id \in {Undefined, NotionId(1)}, updates \in UpdateObjects}
    \cup {[method |-> "POST", body |-> body] : body \in PostBodies}

\* What a page of the database holds for each property: nothing, the
\* property with no value, or the property with a value.
Shapes == [PropertyNames -> {"missing", "empty", "value"}]

PropertyValue(name, shape) ==
    IF shape = "missing" THEN Undefined
    ELSE CASE name = "Resolution" ->
                  [title |-> IF shape = "empty" THEN Arr(<<>>)
                             ELSE Arr(<<[plain_text |-> Str("Run 5k")]>>)]
           [] name \in {"Category", "Unit", "Frequency"} ->
                  [select |-> IF shape = "empty" THEN JsNull ELSE [name |-> Str(name)]]
           [] name \in {"Target", "Current Progress", "Streak"} ->
                  [number |-> IF shape = "empty" THEN JsNull ELSE Num(7)]
           [] name = "Last Check-in" ->
                  [date |-> IF shape = "empty" THEN JsNull
                            ELSE [start |-> Str("2026-01-01")]]

NotionPage(id, shape) ==
    [id |-> id, properties |-> [name \in PropertyNames |-> PropertyValue(name, shape[name])]]

\* The results of a database query: no page, or a page with every property
\* followed by a page of any shape.
ResultLists ==
    { <<>> } \cup
    { << NotionPage(NotionId(1), [name \in PropertyNames |-> "value"]),
         NotionPage(NotionId(2), shape) >> : shape \in Shapes }

\* The responses of the Notion API to the call in flight: an error object
\* with a status that is not 2xx, or the object the call asks for.
NotionResponses(call) ==
    { [ok |-> FALSE, status |-> status, json |-> [object |-> "error", status |-> status]] :
          status \in {400, 404, 429} }
    \cup IF call.method = "POST" /\ call.path = <<"databases", "query">>
         THEN {[ok |-> TRUE, status |-> 200, json |-> [results |-> Arr(results)]] :
                   results \in ResultLists}
         ELSE IF call.method = "POST"
         THEN {[ok |-> TRUE, status |-> 200, json |-> [id |-> NotionId(2)]]}
         ELSE {[ok |-> TRUE, status |-> 200, json |-> [id |-> call.path[2]]]}

(***************************************************************************)
(* The handler, lines 7-242: a request is received and handled up to the   *)
(* answer or to the call of fetch; the fetch resolves or rejects; the body *)
(* of the response is read and the answer sent.  Then the notionService    *)
(* function that made the request returns.                                 *)
(***************************************************************************)
\* Lines 14-233, up to the first await: the answer, or the call of fetch.
\* A TypeError (the body or the updates are undefined) enters the catch block.
Handle(request) ==
    IF request.method = "OPTIONS" THEN [res |-> Json(200, Undefined), call |-> Undefined]
    ELSE IF ~env.NOTION_API_KEY \/ ~env.NOTION_DATABASE_ID
    THEN [res |-> Json(500, [error |-> "Server configuration error"]), call |-> Undefined]
    ELSE IF request.method = "GET"
    THEN [res |-> Undefined,
          call |-> NotionFetch("POST", <<"databases", "query">>, [sorts |-> "Category"])]
    ELSE IF request.method = "PATCH"
    THEN IF request.body = Undefined
         THEN [res |-> InternalError, call |-> Undefined]
         ELSE IF ~Truthy(request.body.pageId)
         THEN [res |-> Json(400, [error |-> "pageId is required"]), call |-> Undefined]
         ELSE IF request.body.updates = Undefined
         THEN [res |-> InternalError, call |-> Undefined]
         ELSE [res |-> Undefined,
               call |-> NotionFetch("PATCH", <<"pages", request.body.pageId>>,
                                    [properties |-> PatchProperties(request.body.updates)])]
    ELSE IF request.method = "POST"
    THEN IF request.body = Undefined
         THEN [res |-> InternalError, call |-> Undefined]
         ELSE IF ~Truthy(request.body.title)
         THEN [res |-> Json(400, [error |-> "title is required"]), call |-> Undefined]
         ELSE [res |-> Undefined,
               call |-> NotionFetch("POST", <<"pages">>,
                                    [parent |-> "NOTION_DATABASE_ID",
                                     properties |-> PostProperties(request.body)])]
    ELSE IF request.method = "DELETE"
    THEN IF request.body = Undefined
         THEN [res |-> InternalError, call |-> Undefined]
         ELSE IF ~Truthy(request.body.pageId)
         THEN [res |-> Json(400, [error |-> "pageId is required"]), call |-> Undefined]
         ELSE [res |-> Undefined,
               call |-> NotionFetch("PATCH", <<"pages", request.body.pageId>>,
                                    [archived |-> TRUE])]
    ELSE [res |-> Json(405, [error |-> "Method not allowed"]), call |-> Undefined]

\* No request was made yet.  The handler keeps no state from one invocation
\* to the next, so a behaviour is one invocation.
Fresh == req = Undefined /\ res = Undefined /\ serviceResult = Undefined

\* Receive with the test of the configuration made before the preflight.
ReceiveConfigurationFirst(request) ==
    /\ Fresh
    /\ req' = request
    /\ res' = IF ~env.NOTION_API_KEY \/ ~env.NOTION_DATABASE_ID
              THEN Json(500, [error |-> "Server configuration error"])
              ELSE Handle(request).res
    /\ notionCall' = IF ~env.NOTION_API_KEY \/ ~env.NOTION_DATABASE_ID
                     THEN Undefined
                     ELSE Handle(request).call
    /\ serviceResult' = Undefined
    /\ UNCHANGED <<env, progress>>
    /\ UNCHANGED <<appVars, swVars, cacheVars>>

\* The gateway receives a request and runs the handler to its first await.
Receive(request) ==
    /\ Fresh
    /\ req' = request
    /\ res' = Handle(request).res
    /\ notionCall' = Handle(request).call
    /\ serviceResult' = Undefined
    /\ UNCHANGED <<env, progress>>
    /\ UNCHANGED <<appVars, swVars, cacheVars>>

\* The fetch of the Notion API has resolved.
NotionResponds(response) ==
    /\ notionCall # Undefined
    /\ notionCall.response = Undefined
    /\ notionCall' = [notionCall EXCEPT !.response = response]
    /\ UNCHANGED <<env, req, res, serviceResult, progress>>
    /\ UNCHANGED <<appVars, swVars, cacheVars>>

\* The fetch of the Notion API has rejected: the catch block answers.
NotionUnreachable ==
    /\ notionCall # Undefined
    /\ notionCall.response = Undefined
    /\ res' = InternalError
    /\ notionCall' = Undefined
    /\ UNCHANGED <<env, req, serviceResult, progress>>
    /\ UNCHANGED <<appVars, swVars, cacheVars>>

\* The answer of each branch to a Notion response that is ok: lines 58-74,
\* 136-141, 198-203 and 225-228.
SuccessAnswer(method, response) ==
    CASE method = "GET" ->
             Json(200, Arr([k \in 1..Len(response.json.results.array) |->
                               TransformPage(response.json.results.array[k])]))
      [] method = "PATCH" ->
             Json(200, [success |-> TRUE, id |-> response.json.id,
                        message |-> "Resolution updated successfully"])
      [] method = "POST" ->
             Json(201, [success |-> TRUE, id |-> response.json.id,
                        message |-> "Resolution created successfully"])
      [] method = "DELETE" ->
             Json(200, [success |-> TRUE, message |-> "Resolution archived successfully"])

\* The text of the error object of each branch.
FailureText(method) ==
    CASE method = "GET" -> "Failed to fetch from Notion"
      [] method = "PATCH" -> "Failed to update in Notion"
      [] method = "POST" -> "Failed to create in Notion"
      [] method = "DELETE" -> "Failed to archive in Notion"

\* The body of the Notion response has been read and the answer is sent.
Respond ==
    /\ notionCall # Undefined
    /\ notionCall.response # Undefined
    /\ res' = IF notionCall.response.ok
              THEN SuccessAnswer(req.method, notionCall.response)
              ELSE ErrorAnswer(notionCall.response, FailureText(req.method))
    /\ notionCall' = Undefined
    /\ UNCHANGED <<env, req, serviceResult, progress>>
    /\ UNCHANGED <<appVars, swVars, cacheVars>>

\* ResolutionTracker.jsx lines 12-51: what a notionService function returns
\* for the response of the gateway; response.ok is a status from 200 to 299.
ServiceResult(response) ==
    IF response.status \in 200..299 THEN response.body ELSE JsNull

\* The response of the gateway has reached the caller.
Returned ==
    /\ req # Undefined
    /\ res # Undefined
    /\ serviceResult' = IF req.method \in {"GET", "PATCH", "POST"}
                        THEN ServiceResult(res)
                        ELSE serviceResult
    /\ req' = Undefined
    /\ UNCHANGED <<env, notionCall, res, progress>>
    /\ UNCHANGED <<appVars, swVars, cacheVars>>

\* The fetch of the client has rejected (the gateway was not reached): the
\* catch block of the notionService function returns null.
ServiceFetchThrows ==
    /\ Fresh
    /\ res' = Undefined
    /\ serviceResult' = JsNull
    /\ UNCHANGED <<env, req, notionCall, progress>>
    /\ UNCHANGED <<appVars, swVars, cacheVars>>

\* The deployments have both credentials, or miss any of them.
\* Not a number: 0 / 0.
NaN == [kind |-> "NaN"]

\* ResolutionTracker.jsx line 211: Math.min((current / target) * 100, 100),
\* rounded down to an integer.  A division by a target of 0 is NaN for a
\* current of 0 and Infinity otherwise, and Math.min of NaN is NaN.
getProgress(resolution) ==
    LET current == resolution.current.number
        target  == resolution.target.number
    IN  IF target = 0
        THEN IF current = 0 THEN NaN ELSE Num(100)
        ELSE IF (current * 100) \div target <= 100
             THEN Num((current * 100) \div target)
             ELSE Num(100)

\* ResolutionTracker.jsx lines 158 and 818: the list fetchResolutions
\* returned is rendered, with the percentage of each goal.
Render ==
    /\ req = Undefined
    /\ progress = Undefined
    /\ serviceResult # Undefined
    /\ "array" \in DOMAIN serviceResult
    /\ progress' = [k \in 1..Len(serviceResult.array) |-> getProgress(serviceResult.array[k])]
    /\ UNCHANGED <<env, req, notionCall, res, serviceResult>>
    /\ UNCHANGED <<appVars, swVars, cacheVars>>

GatewayInit ==
    /\ AppIdle
    /\ SwIdle
    /\ CacheIdle
    /\ env \in [NOTION_API_KEY : BOOLEAN, NOTION_DATABASE_ID : BOOLEAN]
    /\ req = Undefined
    /\ notionCall = Undefined
    /\ res = Undefined
    /\ serviceResult = Undefined
    /\ progress = Undefined

GatewayNext ==
    \/ Fresh /\ \E request \in GatewayRequests : Receive(request)
    \/ /\ notionCall # Undefined
       /\ notionCall.response = Undefined
       /\ \E response \in NotionResponses(notionCall) : NotionResponds(response)
    \/ NotionUnreachable
    \/ Respond
    \/ Returned
    \/ ServiceFetchThrows
    \/ Render

GatewaySpec == GatewayInit /\ [][GatewayNext]_vars

(***************************************************************************)
(* Properties.                                                             *)
(***************************************************************************)
Quiescent == tasks = EmptyBag

RemotePage(pid) == remote[CHOOSE k \in 1..Len(remote) : remote[k].id = pid]

\* Every goal that has a remote id has the remote record's progress.
RemoteMatchesLocal ==
    \A k \in 1..Len(resolutions) :
        resolutions[k].notionPageId # Null =>
            /\ PageExists(resolutions[k].notionPageId)
            /\ RemotePage(resolutions[k].notionPageId).current = resolutions[k].current

IsUpdateOf(t, pid) == t.kind = "update" /\ t.pageId = pid

\* The session started offline with the two cached goals and an empty queue.
StartedOfflineCached ==
    /\ ~mountOnline
    /\ mountPending = <<>>
    /\ HasResolution(PageId(1))
    /\ HasResolution(PageId(2))

\* C1: offline edits reach the remote store.  In a session mounted offline,
\* once the online event has fired, nothing is in flight, every remote call
\* succeeded and no edit was sent directly, the pending-update queue is empty in
\* memory and in storage and every remote record has the local progress.
C1_OfflineEditsReachRemote ==
    (~mountOnline /\ isOnline /\ Quiescent /\ ~hist.failed /\ ~hist.direct)
        => /\ pendingUpdates = <<>>
           /\ storedPending = <<>>
           /\ RemoteMatchesLocal

\* C2: the scenario.  Started offline with two cached goals and an empty
\* queue: after the single event updateProgress(page 1, +1) the local value is 2
\* and the queue has length 1; after the online event as second event, with
\* every remote call succeeding and nothing in flight, the queue has length 0
\* and the status is 'synced'.
C2_OfflineIncrementThenOnline ==
    /\ (StartedOfflineCached /\ clock = 1 /\ Find(PageId(1)).current = 2)
            => Len(pendingUpdates) = 1
    /\ (StartedOfflineCached /\ clock = 2 /\ isOnline /\ Find(PageId(1)).current = 2
            /\ Quiescent /\ ~hist.failed /\ ~hist.direct)
            => (Len(pendingUpdates) = 0 /\ syncStatus = "synced")

\* C3: no queued user action is lost.  In every step, a pending update that
\* leaves the queue has been sent by a remote update call that succeeded.
C3_NoUpdateLost ==
    [][\A k \in 1..Len(pendingUpdates) :
          (\A j \in 1..Len(pendingUpdates') : pendingUpdates'[j] # pendingUpdates[k])
              => \E c \in 1..Len(calls') :
                    /\ calls'[c].ts = pendingUpdates[k].timestamp
                    /\ calls'[c].ok]_vars

\* C4: two-phase mutation.  Every updateProgress call on an existing record
\* sets current (the clamped absolute value) and lastCheckin of that record in
\* the list and leaves the other records alone; for a record with a remote id
\* it then appends exactly one remote update call carrying that value when the
\* connectivity flag is true, and exactly one pending update carrying it when
\* the flag is false; the calls already in flight and the updates already
\* queued stay as they are, and a record without a remote id causes neither.
C4_TwoPhaseMutation ==
    [][\A id \in ClickIds, increment \in Increments :
          UpdateProgress(id, increment) =>
            LET r == Find(id)
                value == IF r.current + increment < 0 THEN 0 ELSE r.current + increment
            IN  /\ Len(resolutions') = Len(resolutions)
                /\ \A k \in 1..Len(resolutions) :
                      IF resolutions[k].id = id
                      THEN /\ resolutions'[k].current = value
                           /\ resolutions'[k].lastCheckin = Today
                           /\ resolutions'[k].notionPageId = resolutions[k].notionPageId
                      ELSE resolutions'[k] = resolutions[k]
                /\ (r.notionPageId # Null /\ isOnline) =>
                      /\ BagCardinality(tasks') = BagCardinality(tasks) + 1
                      /\ \E u \in BagToSet(tasks') :
                            /\ tasks' = tasks (+) One(u)
                            /\ IsUpdateOf(u, r.notionPageId)
                            /\ u.updates.current = value
                      /\ pendingUpdates' = pendingUpdates
                /\ (r.notionPageId # Null /\ ~isOnline) =>
                      /\ Len(pendingUpdates') = Len(pendingUpdates) + 1
                      /\ SubSeq(pendingUpdates', 1, Len(pendingUpdates)) = pendingUpdates
                      /\ pendingUpdates'[Len(pendingUpdates')].pageId = r.notionPageId
                      /\ pendingUpdates'[Len(pendingUpdates')].updates.current = value
                      /\ tasks' = tasks
                /\ r.notionPageId = Null =>
                      (tasks' = tasks /\ pendingUpdates' = pendingUpdates)]_vars

\* C4 witness: two remote update calls of the same record are in flight at
\* once, carrying different values, and the list has the later value.
C4_Witness ==
    /\ HasResolution(PageId(1))
    /\ \E a, b \in BagToSet(tasks) :
          /\ IsUpdateOf(a, PageId(1))
          /\ IsUpdateOf(b, PageId(1))
          /\ a.updates.current # b.updates.current
          /\ Find(PageId(1)).current = b.updates.current

\* C5: a replayed update that succeeded is not sent again.  No two calls of
\* the drain log carry the same pending update when the earlier one succeeded.
C5_NoResendAfterSuccess ==
    \A a, b \in 1..Len(calls) :
        (a < b /\ calls[a].ok) => calls[a].ts # calls[b].ts

\* The updates of the queue q whose call by the drain did failed, in order.
FailedOf(q, did, log) ==
    SelectSeq(q, LAMBDA u : \E c \in 1..Len(log) :
                               /\ log[c].did = did
                               /\ log[c].ts = u.timestamp
                               /\ ~log[c].ok)

\* The number of List calls in flight in the bag b.
CountFetch(b) == CopiesIn(FetchTask("none"), b) + CopiesIn(FetchTask("addSynced"), b)

C7_LastEnqueuedIsLastSent ==
    [][\A t \in BagToSet(tasks), outcome \in Outcomes :
          DrainFinish(t, outcome) =>
            \A k \in 1..Len(pendingUpdates) :
                pendingUpdates[k].timestamp < t.did =>
                    pendingUpdates[k].timestamp <= calls'[Len(calls')].ts]_vars

\* C8: after a fully successful drain a remote List call is issued.  A drain
\* that ends with no failed update starts the refresh.
C8_RefreshAfterDrain ==
    [][\A t \in BagToSet(tasks), outcome \in Outcomes :
          (DrainFinish(t, outcome) /\ pendingUpdates' = <<>>)
              => CountFetch(tasks') = CountFetch(tasks) + 1]_vars

\* C9: a mutation whose remote call fails is queued.  When the PATCH sent by
\* updateProgress fails, by a network error or by rejection, a pending update
\* carrying that mutation is appended to the queue.
C9_FailedMutationQueued ==
    [][\A t \in BagToSet(tasks), outcome \in Outcomes :
          (UpdateComplete(t, outcome) /\ ~Succeeded(outcome)) =>
              /\ Len(pendingUpdates') = Len(pendingUpdates) + 1
              /\ pendingUpdates'[Len(pendingUpdates')].pageId = t.pageId
              /\ pendingUpdates'[Len(pendingUpdates')].updates = t.updates]_vars

\* C10: idempotent empty drain.  An online event that finds the
\* pending-update queue empty issues no remote call and leaves the queue, the
\* goal list and the sync status unchanged.
C10_EmptyDrainNoOp ==
    [][(HandleOnline /\ pendingUpdates = <<>>) =>
          /\ tasks' = tasks
          /\ pendingUpdates' = pendingUpdates
          /\ resolutions' = resolutions
          /\ syncStatus' = syncStatus]_vars

\* Every progress value held in the list, in the queue, in a remote call in
\* flight or in a call the drain made is at least 0.
CurrentsNonNegative ==
    /\ \A k \in 1..Len(resolutions) : resolutions[k].current >= 0
    /\ \A k \in 1..Len(pendingUpdates) : pendingUpdates[k].updates.current >= 0
    /\ \A k \in 1..Len(calls) : calls[k].current >= 0
    /\ \A t \in BagToSet(tasks) :
          /\ t.kind = "update" => t.updates.current >= 0
          /\ t.kind = "drain" =>
                \A k \in 1..Len(t.q) : t.q[k].updates.current >= 0

\* C11: clamping.  In every reachable state every record's current, and every
\* current carried by a pending update or a remote update call, is at least 0;
\* and pressing - on a record whose current is 0 leaves it at 0.
C11_Clamping ==
    /\ []CurrentsNonNegative
    /\ [][\A id \in ClickIds :
             (UpdateProgress(id, -1) /\ Find(id).current = 0)
                 => \E k \in 1..Len(resolutions') :
                       resolutions'[k].id = id /\ resolutions'[k].current = 0]_vars

\* C11 witness: after two events, two remote update calls carrying 0 for
\* page 1 are in flight: the second - was pressed at 0.
C11_Witness ==
    /\ clock = 2
    /\ HasResolution(PageId(1))
    /\ Find(PageId(1)).current = 0
    /\ CopiesIn(UpdateTask(PageId(1), ProgressUpdates(0, Today)), tasks) = 2

\* The update calls in flight that the step added.
NoNewUpdateCall ==
    \A t \in BagToSet(tasks') :
        t.kind = "update" => CopiesIn(t, tasks') <= CopiesIn(t, tasks)

\* Every pending update, in memory, in storage or taken by a drain, targets
\* a remote id.
PendingTargetsRemote ==
    /\ \A k \in 1..Len(pendingUpdates) : pendingUpdates[k].pageId # Null
    /\ \A k \in 1..Len(storedPending) : storedPending[k].pageId # Null
    /\ \A t \in BagToSet(tasks) :
          t.kind = "drain" => \A k \in 1..Len(t.q) : t.q[k].pageId # Null

\* C12: pending updates exist only for records with a remote id.  In every
\* reachable state every pending update targets a non-null remote id;
\* updateProgress on a record whose remote id is null, and addResolution,
\* leave the queue as it is and add no remote update call.
C12_PendingOnlyForRemote ==
    /\ []PendingTargetsRemote
    /\ [][\A id \in ClickIds, increment \in Increments :
             (UpdateProgress(id, increment) /\ Find(id).notionPageId = Null)
                 => (pendingUpdates' = pendingUpdates /\ NoNewUpdateCall)]_vars
    /\ [][AddResolution => (pendingUpdates' = pendingUpdates /\ NoNewUpdateCall)]_vars

\* C12 witness: offline, a goal created locally has been given progress, and
\* the queue is empty.
C12_Witness ==
    /\ ~isOnline
    /\ pendingUpdates = <<>>
    /\ tasks = EmptyBag
    /\ \E k \in 1..Len(resolutions) :
          /\ resolutions[k].id = LocalId(1)
          /\ resolutions[k].notionPageId = Null
          /\ resolutions[k].current = 1

\* No remote mutating call concerns a placeholder: no update call or pending
\* update carries the null remote id, and no create call carries a placeholder.
NoRemoteMutationOfDemo ==
    /\ PendingTargetsRemote
    /\ \A t \in BagToSet(tasks) :
          /\ t.kind = "update" => t.pageId # Null
          /\ t.kind = "create" => t.record.id \notin {DemoId(n) : n \in 1..5}

\* C13: demo fallback.  When a List call that fetchResolutions issued
\* completes empty or failed and storage holds no cached records, the status
\* becomes 'demo' and the list becomes 5 placeholders without a remote id; and
\* no operation on placeholders issues a remote mutating call.
C13_DemoFallback ==
    /\ [](syncStatus = "demo" => NoRemoteMutationOfDemo)
    /\ [][\A t \in BagToSet(tasks), outcome \in Outcomes :
             (FetchComplete(t, outcome) /\ ListData(outcome) = <<>>
                  /\ storedResolutions = <<>>)
                 => /\ syncStatus' = "demo"
                    /\ Len(resolutions') = 5
                    /\ \A k \in 1..Len(resolutions') :
                          resolutions'[k].notionPageId = Null]_vars

\* C14: create failure.  When the Create call that addResolution issued
\* fails, the new record is in the list with a null remote id, the status
\* becomes 'error' and the queue is unchanged.
C14_CreateFailure ==
    [][\A t \in BagToSet(tasks), outcome \in Outcomes :
          (CreateComplete(t, outcome) /\ ~Succeeded(outcome))
              => /\ \E k \in 1..Len(resolutions') :
                       /\ resolutions'[k].id = t.record.id
                       /\ resolutions'[k].notionPageId = Null
                 /\ syncStatus' = "error"
                 /\ pendingUpdates' = pendingUpdates]_vars

\* The ids addResolution gives.
LocalIds == {LocalId(ts) : ts \in 1..MaxEvents}

\* C15: a goal created locally is never lost.  As long as no Create call
\* has succeeded, every record that addResolution added is still in the list
\* after every step.
C15_LocalRecordKept ==
    [][~hist'.created =>
          \A k \in 1..Len(resolutions) :
              (resolutions[k].id \in LocalIds /\ resolutions[k].notionPageId = Null)
                  => \E j \in 1..Len(resolutions') :
                         resolutions'[j].id = resolutions[k].id]_vars

\* C16: connectivity lost.  The offline event sets the connectivity flag to
\* false and the status to 'offline' and leaves the goal list and the
\* pending-update queue, in memory and in storage, unchanged.
C16_OfflineEvent ==
    [][HandleOffline =>
          /\ ~isOnline'
          /\ syncStatus' = "offline"
          /\ resolutions' = resolutions
          /\ pendingUpdates' = pendingUpdates
          /\ storedPending' = storedPending
          /\ storedResolutions' = storedResolutions]_vars

\* C16 witness: a session mounted online with a stored queue got the offline
\* event as its first event: the list and the queue are still there.
C16_Witness ==
    /\ clock = 1
    /\ mountOnline
    /\ ~isOnline
    /\ syncStatus = "offline"
    /\ Len(resolutions) = 2
    /\ Len(pendingUpdates) = 2
    /\ pendingUpdates = mountPending

C18_DurableMirror ==
    /\ storageOk => (storedPending = pendingUpdates /\ storedResolutions = resolutions)
    /\ ~storageOk => (storedPending = <<>> /\ storedResolutions = <<>>)

\* C18 witness: the queue of two updates found in storage has grown by an
\* offline edit and a goal was added, and storage has both.
C18_Witness ==
    /\ storageOk
    /\ Len(storedPending) = 3
    /\ Len(storedResolutions) = 3
    /\ storedPending[3].timestamp > 0
    /\ storedResolutions[3].id \in LocalIds

\* C19: the background replay deletes an update only after the remote store
\* accepted it.  Every update a step removes from the IndexedDB store has had
\* a PATCH answered 2xx.
C19_DeleteOnlyAccepted ==
    [][\A id \in dbPendingUpdates \ dbPendingUpdates' : patched[id].accepted > 0]_vars

\* C20: the background-sync trigger.  A sync event with another tag starts
\* nothing and changes nothing; a replay that finds the store empty ends
\* without a remote call; and whatever the firings, overlapping ones
\* included, no update reaches the remote store more than once.
C20_SyncTrigger ==
    /\ [](\A id \in UpdateKeys : patched[id].received <= 1)
    /\ [][SyncEvent("periodic-check") =>
             UNCHANGED <<dbPendingUpdates, syncRuns, patched>>]_vars
    /\ [][\A run \in BagToSet(syncRuns) :
             (SyncGetAll(run) /\ dbPendingUpdates = {}) =>
                 /\ syncRuns' = syncRuns (-) One(run)
                 /\ UNCHANGED <<dbPendingUpdates, patched>>]_vars


(***************************************************************************)
(* Properties of the service worker's caches, checked under CacheSpec.     *)
(***************************************************************************)
\* The entries a lookup can return sit in a cache of the current generation.
LookupsAreCurrent ==
    \A request \in Requests \cup {AssetRequest(k) : k \in 1..Len(STATIC_ASSETS)} :
        CachesMatch(caches, Key(request)) # Undefined
            => \E k \in 1..Len(caches) :
                   /\ caches[k].name \in {"static-v1", "dynamic-v1"}
                   /\ \E e \in caches[k].entries :
                          /\ e.key = Key(request)
                          /\ e.response = CachesMatch(caches, Key(request))

\* C21: once the activate handler has completed, the names of the existing
\* caches are among static-v1 and dynamic-v1, and every entry a cache lookup
\* returns is an entry of one of these two caches.
C21_GenerationReplacement ==
    worker.state = "activated"
        => /\ CachesKeys(caches) \subseteq {"static-v1", "dynamic-v1"}
           /\ LookupsAreCurrent

\* The activate handler has completed after deleting both caches of the
\* previous version.
C21_Witness ==
    /\ worker.state = "activated"
    /\ worker.deleted = {"static-v0", "dynamic-v0"}
    /\ CachesKeys(caches) = {"static-v1"}

\* The entries of the cache of the name; none when the cache does not exist.
EntriesOf(cs, name) == UNION {cs[k].entries : k \in {j \in 1..Len(cs) : cs[j].name = name}}

\* The static cache holds a response for every asset of the manifest.
ManifestStored ==
    \A k \in 1..Len(STATIC_ASSETS) :
        \E e \in EntriesOf(caches, "static-v1") : e.key = Key(AssetRequest(k))

\* C22: skipWaiting is called, and the installation succeeds, only when the
\* static cache holds every asset of the manifest; an install attempt in
\* which the fetch of any asset fails ends with the installation failed,
\* skipWaiting not called and the cache storage as it was before addAll.
C22_AllOrNothingSeeding ==
    /\ [](worker.skipWaiting \/ worker.state \in {"installed", "activating", "activated"}
            => ManifestStored)
    /\ [][\A failed \in SUBSET (1..Len(STATIC_ASSETS)) :
            InstallAddAll(failed) /\ failed # {}
                => /\ worker'.state = "redundant"
                   /\ ~worker'.skipWaiting
                   /\ EntriesOf(caches', "static-v1") = EntriesOf(caches, "static-v1")]_vars

\* A first install attempt has failed on a fresh storage: the static cache
\* was opened and is empty, and the worker is discarded.
C22_Witness ==
    /\ worker.state = "redundant"
    /\ worker.installs = 1
    /\ ~worker.skipWaiting
    /\ caches = <<[name |-> STATIC_CACHE, entries |-> {}]>>

\* Every stored entry is filed under a GET request.
EntriesAreGets ==
    \A k \in 1..Len(caches) : \A e \in caches[k].entries : e.key.method = "GET"

\* C23: a fetch event whose request is not a GET starts no strategy, gives
\* respondWith no answer and leaves the caches as they are; no strategy runs
\* for such a request, and every stored entry is keyed by a GET request.
C23_NonGetPassthrough ==
    /\ [](/\ EntriesAreGets
          /\ \A h \in BagToSet(handlers) : h.request.method = "GET"
          /\ answered # Undefined => answered.request.method = "GET")
    /\ [][\A request \in Requests :
            FetchEvent(request) /\ request.method # "GET"
                => /\ handlers' = handlers
                   /\ answered' = answered
                   /\ caches' = caches]_vars

\* The only fetch event so far carried a PATCH: no strategy runs and no
\* answer was given.
C23_Witness ==
    /\ worker.state = "activated"
    /\ fetchEvents = 1
    /\ handlers = EmptyBag
    /\ answered = Undefined

\* The rules of the routing policy, on the pathname of the request.
UnderApiPrefix(pathname) ==
    /\ Len(pathname) >= 2
    /\ pathname[1] = "/api"
    /\ pathname[2] \in {"/resolutions", "/user"}

IsManifestPath(pathname) ==
    pathname \in { <<"/">>, <<"/index", ".html">>, <<"/manifest", ".json">>,
                   <<"/styles", ".css">>, <<"/app", ".js">>,
                   <<"/icons", "/icon-192", ".png">>, <<"/icons", "/icon-512", ".png">> }

HasStaticExtension(pathname) ==
    \E ext \in {".js", ".css", ".png", ".jpg", ".jpeg", ".svg", ".woff", ".woff2"} :
        pathname # <<>> /\ pathname[Len(pathname)] = ext

\* The strategy of the first rule that matches.
ExpectedStrategy(request) ==
    LET pathname == request.url.pathname
    IN  IF UnderApiPrefix(pathname) THEN "networkFirst"
        ELSE IF IsManifestPath(pathname) \/ HasStaticExtension(pathname) THEN "cacheFirst"
        ELSE IF "text/html" \in request.accept THEN "networkFirst"
        ELSE "staleWhileRevalidate"

\* C24: a fetch event with a GET request starts exactly one strategy, that of
\* the first matching rule in the order API prefix, manifest path or static
\* extension, HTML accept, otherwise stale-while-revalidate; a path under
\* /api/resolutions that ends in .js is network-first and the manifest path
\* '/' is cache-first although the request accepts text/html.
C24_RoutingDeterminism ==
    [][\A request \in Requests :
        FetchEvent(request) /\ request.method = "GET"
            => \E h \in BagToSet(handlers') :
                   /\ handlers' = handlers (+) SetToBag({h})
                   /\ h.request = request
                   /\ h.strategy = ExpectedStrategy(request)
                   /\ (request.url.pathname = <<"/api", "/resolutions", "/export", ".js">>
                         => h.strategy = "networkFirst")
                   /\ (request.url.pathname = <<"/">> /\ "text/html" \in request.accept
                         => h.strategy = "cacheFirst")]_vars

\* Both particular cases were routed: the API path with a static extension
\* runs network-first and the manifest path '/' runs cache-first.
C24_Witness ==
    /\ \E h \in BagToSet(handlers) :
           /\ h.request.url.pathname = <<"/api", "/resolutions", "/export", ".js">>
           /\ h.strategy = "networkFirst"
    /\ \E h \in BagToSet(handlers) :
           /\ h.request.url.pathname = <<"/">>
           /\ "text/html" \in h.request.accept
           /\ h.strategy = "cacheFirst"

\* C25: networkFirst answers with the network response when the fetch
\* completes, storing it in the dynamic cache only when it is 2xx; when the
\* fetch fails it answers with the cached entry if any cache has one, else
\* with the offline document for a request accepting text/html and with a
\* JSON response of status 503 otherwise; the answer is always a response.
C25_NetworkFirstChain ==
    /\ [](answered # Undefined /\ answered.strategy = "networkFirst"
            => answered.response # Undefined /\ answered.response.kind = "response")
    /\ [][\A h \in BagToSet(handlers) :
            /\ \A outcome \in {"ok", "rejected"} :
                 NetworkFirstFetched(h, outcome)
                     => /\ answered'.response = NetworkResponse(outcome, fetchEvents)
                        /\ IF outcome = "ok"
                           THEN Entry(Key(h.request), answered'.response, "networkFirst")
                                    \in EntriesOf(caches', "dynamic-v1")
                           ELSE caches' = caches
            /\ NetworkFirstMatch(h) /\ CachesMatch(caches, Key(h.request)) # Undefined
                 => answered'.response = CachesMatch(caches, Key(h.request))
            /\ NetworkFirstMatch(h) /\ CachesMatch(caches, Key(h.request)) = Undefined
                                    /\ "text/html" \notin h.request.accept
                 => answered'.response.status = 503 /\ answered'.response.body = "{error: Offline}"
            /\ NetworkFirstOffline(h)
                 => answered'.response # Undefined]_vars

\* C26: cacheFirst answers with the cached entry, and asks the network for
\* nothing, when a cache has one; otherwise it fetches and answers with the
\* network response, which it stores in the static cache only when it is
\* 2xx; when the fetch fails it answers with a response of status 503.
C26_CacheFirst ==
    [][\A h \in BagToSet(handlers) :
        /\ CacheFirstMatch(h) /\ CachesMatch(caches, Key(h.request)) # Undefined
             => /\ answered' = Answer(h, CachesMatch(caches, Key(h.request)))
                /\ handlers' = handlers (-) SetToBag({h})
                /\ caches' = caches
        /\ CacheFirstMatch(h) /\ CachesMatch(caches, Key(h.request)) = Undefined
             => /\ answered' = answered
                /\ \E g \in BagToSet(handlers') : g.request = h.request /\ g.pc = "fetch"
        /\ CacheFirstFetched(h, "ok")
             => /\ answered'.response = NetworkResponse("ok", fetchEvents)
                /\ Entry(Key(h.request), answered'.response, "cacheFirst")
                       \in EntriesOf(caches', "static-v1")
                /\ CachesMatch(caches', Key(h.request)) = answered'.response
        /\ CacheFirstFetched(h, "rejected")
             => /\ answered'.response = NetworkResponse("rejected", fetchEvents)
                /\ ~answered'.response.ok
                /\ caches' = caches
        /\ CacheFirstFetched(h, "neterr")
             => /\ answered'.response.kind = "response"
                /\ answered'.response.status = 503
                /\ caches' = caches]_vars

\* cacheFirst has answered with a response that is not 2xx, and no cache
\* holds an entry for its request.
C26_Witness ==
    /\ answered # Undefined
    /\ answered.strategy = "cacheFirst"
    /\ answered.response.status = 404
    /\ CachesMatch(caches, Key(answered.request)) = Undefined

\* C27: staleWhileRevalidate answers with the cached entry, when a cache has
\* one, before the fetch settles; a revalidation that completes 2xx stores
\* its response in the dynamic cache and the next lookup of the request
\* returns that response; a failed or non-2xx revalidation leaves the caches
\* as they are; with no cached entry the answer is the result of the fetch.
C27_StaleWhileRevalidate ==
    [][\A h \in BagToSet(handlers) :
        /\ StaleMatch(h) /\ CachesMatch(caches, Key(h.request)) # Undefined
             => /\ answered' = Answer(h, CachesMatch(caches, Key(h.request)))
                /\ \E g \in BagToSet(handlers') : g.request = h.request /\ g.pc = "fetch"
        /\ StaleMatch(h) /\ CachesMatch(caches, Key(h.request)) = Undefined
             => answered' = answered
        /\ StaleFetched(h, "ok")
             => /\ Entry(Key(h.request), NetworkResponse("ok", fetchEvents),
                         "staleWhileRevalidate") \in EntriesOf(caches', "dynamic-v1")
                /\ CachesMatch(caches', Key(h.request)) = NetworkResponse("ok", fetchEvents)
        /\ \A outcome \in {"neterr", "rejected"} :
             StaleFetched(h, outcome) => caches' = caches
        /\ \A outcome \in {"ok", "rejected"} :
             StaleFetched(h, outcome) /\ ~h.responded
                 => answered' = Answer(h, NetworkResponse(outcome, fetchEvents))]_vars

(***************************************************************************)
(* Properties of the gateway, checked under GatewaySpec.                   *)
(***************************************************************************)
\* The fields of a partial update and the remote property of each.
UpdateFields ==
    {"current", "lastCheckin", "streak", "title", "category", "target", "unit", "frequency"}

RemoteProperty(field) ==
    CASE field = "current" -> "Current Progress"
      [] field = "lastCheckin" -> "Last Check-in"
      [] field = "streak" -> "Streak"
      [] field = "title" -> "Resolution"
      [] field = "category" -> "Category"
      [] field = "target" -> "Target"
      [] field = "unit" -> "Unit"
      [] field = "frequency" -> "Frequency"

\* The PATCH branch is calling the remote store for a partial update.
Patching ==
    /\ notionCall # Undefined
    /\ req # Undefined
    /\ req.method = "PATCH"

\* C28: the property bag the PATCH branch sends to the remote store holds a
\* remote property exactly for each field that is present in the update,
\* and none for an absent field.
C28_ForwardMapping ==
    Patching
        => \A field \in UpdateFields :
               notionCall.body.properties[RemoteProperty(field)] # Undefined
                   <=> req.body.updates[field] # Undefined

\* Which of nothing, no value or a value the page holds for each property.
ShapeOf(page) ==
    [name \in PropertyNames |->
        IF page.properties[name] = Undefined THEN "missing"
        ELSE IF page.properties[name] = PropertyValue(name, "empty") THEN "empty"
        ELSE "value"]

\* The goal record of a page: the value of each property that has one, and
\* the default of each other.
ExpectedGoal(page) ==
    LET has(name) == ShapeOf(page)[name] = "value"
    IN  [id |-> page.id,
         notionPageId |-> page.id,
         title |-> IF has("Resolution") THEN Str("Run 5k") ELSE Str("Untitled"),
         category |-> IF has("Category") THEN Str("Category") ELSE Str("Personal Growth"),
         target |-> IF has("Target") THEN Num(7) ELSE Num(0),
         current |-> IF has("Current Progress") THEN Num(7) ELSE Num(0),
         unit |-> IF has("Unit") THEN Str("Unit") ELSE Str("times"),
         frequency |-> IF has("Frequency") THEN Str("Frequency") ELSE Str("weekly"),
         streak |-> IF has("Streak") THEN Num(7) ELSE Num(0),
         lastCheckin |-> IF has("Last Check-in") THEN Str("2026-01-01") ELSE Str("")]

\* C29: when the remote store answers a List with pages of which any
\* properties are missing or empty, the gateway answers 200 with one goal
\* record for each page, whose id and remote id are the page id and whose
\* other fields are the values of the page or, for each missing or empty
\* property, the default.
C29_ReverseMapping ==
    [][Respond /\ req.method = "GET" /\ notionCall.response.ok
        => LET results == notionCall.response.json.results.array
           IN  /\ res'.status = 200
               /\ Len(res'.body.array) = Len(results)
               /\ \A k \in 1..Len(results) :
                      res'.body.array[k] = ExpectedGoal(results[k])]_vars

\* The List answer holds the record of a page without any property: every
\* field but the ids is the default.
C29_Witness ==
    /\ req # Undefined
    /\ req.method = "GET"
    /\ res # Undefined
    /\ res.status = 200
    /\ Len(res.body.array) = 2
    /\ res.body.array[2] =
           [id |-> NotionId(2), notionPageId |-> NotionId(2), title |-> Str("Untitled"),
            category |-> Str("Personal Growth"), target |-> Num(0), current |-> Num(0),
            unit |-> Str("times"), frequency |-> Str("weekly"), streak |-> Num(0),
            lastCheckin |-> Str("")]

\* C30: when the remote store answers 2xx the gateway answers 200 with the
\* mapped array (List), 201 with the new id (Create), 200 with the id
\* (Update) or 200 (Archive); when the remote store answers with another
\* status the gateway answers with that status and an error object; the
\* notionService functions return null for every answer that is not 2xx and
\* for a fetch that throws.
C30_OutcomeMapping ==
    /\ [][Respond /\ notionCall.response.ok
            => CASE req.method = "GET" ->
                        /\ res'.status = 200
                        /\ Len(res'.body.array) = Len(notionCall.response.json.results.array)
                 [] req.method = "POST" ->
                        res'.status = 201 /\ res'.body.id = notionCall.response.json.id
                 [] req.method = "PATCH" ->
                        res'.status = 200 /\ res'.body.id = req.body.pageId
                 [] req.method = "DELETE" ->
                        res'.status = 200]_vars
    /\ [][Respond /\ ~notionCall.response.ok
            => /\ res'.status = notionCall.response.status
               /\ res'.status \notin 200..299
               /\ "error" \in DOMAIN res'.body]_vars
    /\ [][Returned /\ req.method \in {"GET", "PATCH", "POST"}
            => IF res.status \in 200..299
               THEN serviceResult' = res.body
               ELSE serviceResult' = JsNull]_vars
    /\ [][ServiceFetchThrows => serviceResult' = JsNull]_vars

\* The remote store has refused a Create with 429: the gateway answered 429
\* with an error object and createResolution returned null.
C30_Witness ==
    /\ req = Undefined
    /\ res # Undefined
    /\ res.status = 429
    /\ res.body.error = "Failed to create in Notion"
    /\ serviceResult = JsNull

\* C31: the percentage rendered for every fetched goal is a number from 0
\* to 100, also for a goal whose target is the default 0 of the reverse
\* mapping; and the current of a goal is not capped at its target: an
\* increment of a current equal to the target yields the target plus one.
C31_PercentageBound ==
    progress # Undefined
        => \A k \in 1..Len(progress) :
               /\ progress[k] # NaN
               /\ progress[k].number \in 0..100
               /\ LET target == serviceResult.array[k].target.number
                  IN  NewCurrent([current |-> target], 1) = target + 1

\* C32: every answer a strategy gives to respondWith is a response, whatever
\* the caches hold and however the fetch ends.
C32_AlwaysAResponse ==
    answered # Undefined
        => /\ answered.response # Undefined
           /\ answered.response.kind = "response"

\* C33: the sync status is one of synced, syncing, offline, error and demo,
\* and whenever no remote call is in flight the status is not 'syncing' and
\* the loading flag is false.
C33_NeverStuckSyncing ==
    /\ syncStatus \in {"synced", "syncing", "offline", "error", "demo"}
    /\ tasks = EmptyBag => syncStatus # "syncing" /\ ~isLoading

\* A remote call has failed and none is in flight: the status is 'error'.
C33_Witness ==
    /\ tasks = EmptyBag
    /\ hist.failed
    /\ syncStatus = "error"
    /\ ~isLoading

\* C34: while the connectivity flag is false the sync status is neither
\* 'synced' nor 'syncing'.
C34_OfflineStatusKept ==
    ~isOnline => syncStatus \notin {"synced", "syncing"}

\* C35: the GET request for /api/notion/resolutions is handled by the
\* network-first strategy: every running handler and every answer for that
\* path is one of networkFirst.
C35_ListIsNetworkFirst ==
    /\ \A h \in BagToSet(handlers) :
           h.request.url.pathname = <<"/api", "/notion", "/resolutions">>
               => h.strategy = "networkFirst"
    /\ answered # Undefined
           /\ answered.request.url.pathname = <<"/api", "/notion", "/resolutions">>
               => answered.strategy = "networkFirst"

\* C36: every cache entry written by a fetch strategy holds a response with
\* a 2xx status; the entries of cacheFirst are in the static cache only and
\* those of networkFirst and staleWhileRevalidate in the dynamic cache only;
\* no cache holds a response of status 503.
C36_OnlySuccessCached ==
    \A k \in 1..Len(caches) : \A e \in caches[k].entries :
        /\ e.by \in {"cacheFirst", "networkFirst", "staleWhileRevalidate"}
               => e.response.ok /\ e.response.status \in 200..299
        /\ e.by = "cacheFirst" => caches[k].name = STATIC_CACHE
        /\ e.by \in {"networkFirst", "staleWhileRevalidate"}
               => caches[k].name = DYNAMIC_CACHE
        /\ e.response.status # 503

\* A strategy has stored a response, and a later event was answered with a
\* response that is not ok: an error status of the network or the synthetic
\* 503.
C36_Witness ==
    /\ \E k \in 1..Len(caches) : \E e \in caches[k].entries :
           e.by \in {"cacheFirst", "networkFirst", "staleWhileRevalidate"}
    /\ answered # Undefined
    /\ answered.response # Undefined
    /\ ~answered.response.ok

\* The statuses a request may be answered with when a guard of the handler
\* stops it: none when the request passes every guard.
GuardStatuses(request) ==
    IF request.method = "OPTIONS" THEN {200}
    ELSE IF ~(env.NOTION_API_KEY /\ env.NOTION_DATABASE_ID) THEN {500}
    ELSE IF request.method \notin {"GET", "PATCH", "POST", "DELETE"} THEN {405}
    ELSE IF request.body = Undefined THEN {}
    ELSE IF request.method \in {"PATCH", "DELETE"} /\ ~Truthy(request.body.pageId)
    THEN {400}
    ELSE IF request.method = "POST" /\ ~Truthy(request.body.title) THEN {400}
    ELSE IF request.method = "PATCH" /\ request.body.updates = Undefined
    THEN 400..599
    ELSE {}

C38_DemoNotPersisted ==
    /\ [](\A k \in 1..Len(storedResolutions) : storedResolutions[k].id[1] # "demo")
    /\ [][\A t \in BagToSet(tasks), outcome \in Outcomes :
             (/\ FetchComplete(t, outcome)
              /\ t.then # "addSynced"
              /\ ListData(outcome) = <<>>
              /\ Len(resolutions) > 0
              /\ \A k \in 1..Len(resolutions) : resolutions[k].id[1] = "demo")
                 => syncStatus' = "demo"]_vars

====
